---- MODULE Spec2Model ----
(***************************************************************************)
(* AluVM: the control registers (Core), the control-flow ISA (CtrlInstr),  *)
(* its bytecode encoding, the library execution loop and the VM driver.    *)
(*                                                                         *)
(* Bytes are integers 0..255, code segments are sequences of bytes (the    *)
(* byte at offset o is code[o + 1]), u16 values are integers 0..65535 and  *)
(* u64 values are four 16-bit limbs, least significant first.              *)
(***************************************************************************)
EXTENDS Integers, Sequences, FiniteSets, TLC

VARIABLES
    core,    \* the control registers: ch, ck, cf, co, cy, ca, cl, cs
    site,    \* Vm::exec: the current site (lib_id, offset)
    skip,    \* Vm::exec: the skip flag handed to Lib::exec
    vmpc,    \* position of the driver: "idle", "run", "done", "panic"
    scn,     \* index of the set of libraries the resolver serves
    core_config,  \* the CoreConfig the Vm was constructed with
    runs,    \* number of Vm::exec calls made on this Vm
    last,    \* what the latest step of the run did
    hist,    \* bookkeeping of the current run (counters of steps and jumps)
    codec    \* state of the marshaller under test (encode, then decode)

vars == <<core, site, skip, vmpc, scn, core_config, runs, last, hist, codec>>

----------------------------------------------------------------------------
(* Bounds of the model *)

\* Vm::exec calls made on one Vm
MaxRuns == 2

(* Program constants *)

U16_MAX == 65535
CALL_STACK_SIZE_MAX == 255
CY_MAX == 65535
\* the number of referenced libraries a libs segment can hold
LIBS_SEG_MAX == 255

----------------------------------------------------------------------------
(* u64 arithmetic on four 16-bit limbs *)

Limb == 65536

U64(n) == <<n % Limb, (n \div Limb) % Limb, 0, 0>>

U64_ZERO == <<0, 0, 0, 0>>

U64_MAX == <<65535, 65535, 65535, 65535>>

\* the carry out of limb i when adding a and b
RECURSIVE U64Carry(_, _, _)
U64Carry(a, b, i) ==
    IF i = 0 THEN 0 ELSE (a[i] + b[i] + U64Carry(a, b, i - 1)) \div Limb

U64WrappingAdd(a, b) ==
    [i \in 1..4 |-> (a[i] + b[i] + U64Carry(a, b, i - 1)) % Limb]

U64Overflows(a, b) == U64Carry(a, b, 4) > 0

\* u64::saturating_add
U64SaturatingAdd(a, b) ==
    IF U64Overflows(a, b) THEN U64_MAX ELSE U64WrappingAdd(a, b)

RECURSIVE U64GeqFrom(_, _, _)
U64GeqFrom(a, b, i) ==
    IF i = 0 THEN TRUE
    ELSE IF a[i] > b[i] THEN TRUE
    ELSE IF a[i] < b[i] THEN FALSE
    ELSE U64GeqFrom(a, b, i - 1)

U64Geq(a, b) == U64GeqFrom(a, b, 4)

----------------------------------------------------------------------------
(* Status *)

Ok == "Ok"
Fail == "Fail"
Status == {Ok, Fail}

\* mutant: the negation of either status is Fail
NotIsFail(s) == Fail

\* impl Not for Status
Not(s) == IF s = Ok THEN Fail ELSE Ok

is_ok(s) == s = Ok

----------------------------------------------------------------------------
(* Library ids and sites *)

\* "A" and "B" are served by the resolver, "X" is not; "Zero" is the default
\* (all-zero) LibId
LibIds == {"A", "B", "X"}

LibRank(id) == CASE id = "Zero" -> 0 [] id = "A" -> 1 [] id = "B" -> 2 [] OTHER -> 3

Site(prog_id, offset) == [prog_id |-> prog_id, offset |-> offset]

----------------------------------------------------------------------------
(* CtrlInstr and ReservedInstr *)

NOP == 0
NOCO == 1
CHCO == 2
CHCK == 3
FAIL == 4
RSET == 5
JMP == 6
JINE == 7
JIFAIL == 8
SH == 9
SHNE == 10
SHFAIL == 11
EXEC == 12
FN == 13
CALL == 14
RET == 15
STOP == 16

START == 0
END == START + STOP

Nop == [op |-> "Nop"]
ChkCo == [op |-> "ChkCo"]
ChkCk == [op |-> "ChkCk"]
NotCo == [op |-> "NotCo"]
FailCk == [op |-> "FailCk"]
RsetCk == [op |-> "RsetCk"]
Jmp(pos) == [op |-> "Jmp", pos |-> pos]
JiOvfl(pos) == [op |-> "JiOvfl", pos |-> pos]
JiFail(pos) == [op |-> "JiFail", pos |-> pos]
Sh(shift) == [op |-> "Sh", shift |-> shift]
ShOvfl(shift) == [op |-> "ShOvfl", shift |-> shift]
ShFail(shift) == [op |-> "ShFail", shift |-> shift]
Exec(s) == [op |-> "Exec", site |-> s]
Fn(pos) == [op |-> "Fn", pos |-> pos]
Call(s) == [op |-> "Call", site |-> s]
Ret == [op |-> "Ret"]
Stop == [op |-> "Stop"]
ReservedInstr(opcode) == [op |-> "Reserved", opcode |-> opcode]

NoOperandOps == {"Nop", "ChkCo", "ChkCk", "NotCo", "FailCk", "RsetCk", "Ret", "Stop"}
PosOps == {"Jmp", "JiOvfl", "JiFail", "Fn"}
ShiftOps == {"Sh", "ShOvfl", "ShFail"}
SiteOps == {"Exec", "Call"}

\* Bytecode::opcode_byte
opcode_byte(instr) ==
    CASE instr.op = "Nop" -> NOP
      [] instr.op = "ChkCo" -> CHCO
      [] instr.op = "ChkCk" -> CHCK
      [] instr.op = "NotCo" -> NOCO
      [] instr.op = "FailCk" -> FAIL
      [] instr.op = "RsetCk" -> RSET
      [] instr.op = "Jmp" -> JMP
      [] instr.op = "JiOvfl" -> JINE
      [] instr.op = "JiFail" -> JIFAIL
      [] instr.op = "Sh" -> SH
      [] instr.op = "ShOvfl" -> SHNE
      [] instr.op = "ShFail" -> SHFAIL
      [] instr.op = "Exec" -> EXEC
      [] instr.op = "Fn" -> FN
      [] instr.op = "Call" -> CALL
      [] instr.op = "Ret" -> RET
      [] instr.op = "Stop" -> STOP
      [] instr.op = "Reserved" -> instr.opcode

\* Bytecode::code_byte_len
code_byte_len(instr) ==
    IF instr.op = "Reserved" THEN 1
    ELSE LET arg_bytes ==
                 CASE instr.op \in {"Nop", "ChkCo", "ChkCk", "NotCo", "FailCk", "RsetCk"} -> 0
                   [] instr.op \in PosOps -> 2
                   [] instr.op \in ShiftOps -> 1
                   [] instr.op \in SiteOps -> 3
                   [] instr.op \in {"Ret", "Stop"} -> 0
         IN  arg_bytes + 1

----------------------------------------------------------------------------
(* Marshaller: the writer and the reader of the code and libs segments *)

Byte == 0..255

\* the answer of a reader or of a writer
RdOk(val, pos) == [tag |-> "Ok", val |-> val, pos |-> pos]
CodeEof == [tag |-> "CodeEof"]
Panic == [tag |-> "Panic"]

\* a writer: the code segment written so far and the libs segment
Writer(code, libs) == [tag |-> "Ok", code |-> code, libs |-> libs]
LibSegOverflow == [tag |-> "LibSegOverflow"]

\* BytecodeWrite::write_byte
write_byte(w, b) == Writer(Append(w.code, b), w.libs)

\* BytecodeWrite::write_word: little-endian
write_word(w, word) == Writer(w.code \o <<word % 256, word \div 256>>, w.libs)

\* index of a library id in the libs segment (Len(libs) when absent)
LibIndex(libs, id) ==
    LET found == {i \in 1..Len(libs) : libs[i] = id}
    IN  IF found = {} THEN Len(libs)
        ELSE (CHOOSE i \in found : \A j \in found : i <= j) - 1

\* BytecodeWrite::write_ref: one byte, the index of the id in the libs segment;
\* an absent id is added to the segment unless the segment is full
write_ref(w, id) ==
    IF LibIndex(w.libs, id) < Len(w.libs)
    THEN write_byte(w, LibIndex(w.libs, id))
    ELSE IF Len(w.libs) >= LIBS_SEG_MAX THEN LibSegOverflow
    ELSE Writer(Append(w.code, Len(w.libs)), Append(w.libs, id))

\* BytecodeRead::read_byte at code offset pos
read_byte(code, pos) ==
    IF pos < Len(code) THEN RdOk(code[pos + 1], pos + 1) ELSE CodeEof

\* BytecodeRead::read_word: little-endian
read_word(code, pos) ==
    IF pos + 1 < Len(code)
    THEN RdOk(code[pos + 1] + 256 * code[pos + 2], pos + 2)
    ELSE CodeEof

\* BytecodeRead::read_ref: one byte indexing the libs segment
read_ref(code, libs, pos) ==
    IF pos < Len(code)
    THEN RdOk(IF code[pos + 1] < Len(libs) THEN libs[code[pos + 1] + 1] ELSE "Zero", pos + 1)
    ELSE CodeEof

\* mutant: the shift written as its magnitude, the sign lost
i8_magnitude(shift) == IF shift < 0 THEN 0 - shift ELSE shift

\* i8::to_le_bytes()[0]
i8_to_byte(shift) == (shift + 256) % 256

\* i8::from_le_bytes
i8_from_byte(b) == IF b >= 128 THEN b - 256 ELSE b

----------------------------------------------------------------------------
(* Bytecode for Instr, CtrlInstr and ReservedInstr *)

\* CtrlInstr::encode_operands and ReservedInstr::encode_operands
encode_operands(instr, w) ==
    CASE instr.op \in NoOperandOps -> w
      [] instr.op \in PosOps -> write_word(w, instr.pos)
      [] instr.op \in ShiftOps -> write_byte(w, i8_to_byte(instr.shift))
      [] instr.op \in SiteOps ->
            LET r == write_ref(w, instr.site.prog_id)
            IN  IF r.tag = "Ok" THEN write_word(r, instr.site.offset) ELSE r
      [] instr.op = "Reserved" -> w

\* Bytecode::encode_instr: the opcode byte, then the operands
encode_instr(instr, w) == encode_operands(instr, write_byte(w, opcode_byte(instr)))

\* CtrlInstr::decode_operands, for an opcode of CtrlInstr::op_range(); pos is
\* the offset after the opcode byte
CtrlDecodeOperands(code, libs, pos, opcode) ==
    LET word == read_word(code, pos)
        byte == read_byte(code, pos)
        ref == read_ref(code, libs, pos)
        off == IF ref.tag = "Ok" THEN read_word(code, ref.pos) ELSE ref
        WithPos(mk(_)) == IF word.tag = "Ok" THEN RdOk(mk(word.val), word.pos) ELSE word
        WithShift(mk(_)) ==
            IF byte.tag = "Ok" THEN RdOk(mk(i8_from_byte(byte.val)), byte.pos) ELSE byte
        WithSite(mk(_)) ==
            IF off.tag = "Ok" THEN RdOk(mk(Site(ref.val, off.val)), off.pos) ELSE off
    IN  CASE opcode = NOP -> RdOk(Nop, pos)
          [] opcode = CHCK -> RdOk(ChkCk, pos)
          [] opcode = FAIL -> RdOk(FailCk, pos)
          [] opcode = RSET -> RdOk(RsetCk, pos)
          [] opcode = NOCO -> RdOk(NotCo, pos)
          [] opcode = RET -> RdOk(Ret, pos)
          [] opcode = STOP -> RdOk(Stop, pos)
          [] opcode = JMP -> WithPos(Jmp)
          [] opcode = JINE -> WithPos(JiOvfl)
          [] opcode = JIFAIL -> WithPos(JiFail)
          [] opcode = FN -> WithPos(Fn)
          [] opcode = SH -> WithShift(Sh)
          [] opcode = SHNE -> WithShift(ShOvfl)
          [] opcode = SHFAIL -> WithShift(ShFail)
          [] opcode = CALL -> WithSite(Call)
          [] opcode = EXEC -> WithSite(Exec)
          [] OTHER -> Panic  \* unreachable!()

\* Instr::decode_operands: CtrlInstr for its opcode range, ReservedInstr otherwise
decode_operands(code, libs, pos, opcode) ==
    IF START <= opcode /\ opcode <= END
    THEN CtrlDecodeOperands(code, libs, pos, opcode)
    ELSE RdOk(ReservedInstr(opcode), pos)

\* Bytecode::decode_instr: the opcode byte, then the operands
decode_instr(code, libs, pos) ==
    LET opcode == read_byte(code, pos)
    IN  IF opcode.tag = "Ok" THEN decode_operands(code, libs, opcode.pos, opcode.val)
        ELSE opcode

----------------------------------------------------------------------------
(* Core: the control registers and their microcode *)

None == [some |-> FALSE]
Some(v) == [some |-> TRUE, val |-> v]

CoreConfig(halt, complexity_lim) ==
    [halt |-> halt, complexity_lim |-> complexity_lim, call_stack_size |-> CALL_STACK_SIZE_MAX]

\* mutant: the halt flag of the configuration is not taken over
CoreWithHaltSet(config) ==
    [ch |-> TRUE, ck |-> Ok, cf |-> 0, co |-> Ok, cy |-> 0, ca |-> U64_ZERO,
     cl |-> config.complexity_lim, cs |-> << >>, cp |-> 0,
     cs_cap |-> config.call_stack_size]

\* Core::with
CoreWith(config) ==
    [ch |-> config.halt,
     ck |-> Ok,
     cf |-> 0,
     co |-> Ok,
     cy |-> 0,
     ca |-> U64_ZERO,
     cl |-> config.complexity_lim,
     cs |-> << >>,
     cp |-> 0,
     cs_cap |-> config.call_stack_size]

\* Core::cp: the top of the call stack
cp(c) == c.cp

\* mutant: reset leaves the cycle counter as it is
CoreResetKeepsCy(c) ==
    [c EXCEPT !.ck = Ok, !.cf = 0, !.co = Ok, !.ca = U64_ZERO, !.cs = << >>,
              !.cp = 0]

\* Core::reset: everything but CH and CL returns to its initial state
CoreReset(c) ==
    [c EXCEPT !.ck = Ok, !.cf = 0, !.co = Ok, !.cy = 0, !.ca = U64_ZERO, !.cs = << >>,
              !.cp = 0]

\* Core::fail_ck: the core after the call
FailCkCore(c) == [c EXCEPT !.ck = Fail, !.cf = c.cf + 1]

\* mutant: fail_ck never asks the caller to stop
FailCkNeverStops(c) == FALSE

\* Core::fail_ck: the returned flag, "the caller must stop"
FailCkStops(c) == c.ch /\ c.cf = 0

\* Core::set_co
set_co(c, co) == [c EXCEPT !.co = co]

\* Core::reset_ck
reset_ck(c) == [c EXCEPT !.ck = Ok]

\* Core::push_cs: None (the core unchanged) when the call stack is full
PushCsOk(c) == Len(c.cs) < c.cs_cap
\* mutant: a push leaves the call-stack pointer where it was
push_cs_keeps_cp(c, s) == IF PushCsOk(c) THEN [c EXCEPT !.cs = Append(c.cs, s)] ELSE c

push_cs(c, s) ==
    IF PushCsOk(c) THEN [c EXCEPT !.cs = Append(c.cs, s), !.cp = c.cp + 1] ELSE c

\* Core::pop_cs: None when the call stack is empty
PopCsOk(c) == Len(c.cs) > 0
PopCsSite(c) == c.cs[Len(c.cs)]
pop_cs(c) ==
    IF PopCsOk(c)
    THEN [c EXCEPT !.cs = SubSeq(c.cs, 1, Len(c.cs) - 1), !.cp = c.cp - 1]
    ELSE c

\* mutant: the complexity is added modulo 2^64
AccComplexityWraps(c, cx) == [c EXCEPT !.ca = U64WrappingAdd(c.ca, cx)]

\* the complexity accumulator after charging an instruction
AccComplexity(c, cx) == [c EXCEPT !.ca = U64SaturatingAdd(c.ca, cx)]

\* mutant: the limit is reached only once CA is above it
LimitReachedAbove(c) == c.cl.some /\ ~U64Geq(c.cl.val, c.ca)

\* mutant: the limit is never reached
LimitNeverReached(c) == FALSE

\* whether the complexity limit is set and reached
LimitReached(c) == c.cl.some /\ U64Geq(c.ca, c.cl.val)

----------------------------------------------------------------------------
(* Instruction for CtrlInstr and ReservedInstr *)

\* Instruction::op_data_bytes
op_data_bytes(instr) ==
    CASE instr.op \in {"Nop", "ChkCo", "ChkCk", "NotCo", "FailCk", "RsetCk"} -> 0
      [] instr.op \in {"Jmp", "JiOvfl", "JiFail"} -> 2
      [] instr.op \in ShiftOps -> 1
      [] instr.op = "Exec" -> 2
      [] instr.op = "Fn" -> 2
      [] instr.op = "Call" -> 2
      [] instr.op \in {"Ret", "Stop"} -> 0
      [] instr.op = "Reserved" -> 0

\* Instruction::ext_data_bytes
ext_data_bytes(instr) ==
    CASE instr.op = "Exec" -> 32
      [] instr.op = "Call" -> 32
      [] OTHER -> 0

\* Instruction::src_reg_bytes and dst_reg_bytes: control flow uses no registers
src_reg_bytes(instr) == 0
dst_reg_bytes(instr) == 0

\* mutant: the external data are counted once
base_complexity_ext_once(instr) ==
    U64((op_data_bytes(instr) + src_reg_bytes(instr) + dst_reg_bytes(instr)
            + ext_data_bytes(instr)) * 8 * 1000)

\* Instruction::base_complexity
base_complexity(instr) ==
    U64((op_data_bytes(instr) + src_reg_bytes(instr) + dst_reg_bytes(instr)
            + ext_data_bytes(instr) * 2) * 8 * 1000)

\* Instruction::complexity
complexity(instr) == IF instr.op = "Reserved" THEN U64_MAX ELSE base_complexity(instr)

\* ExecStep
StepStop == [step |-> "Stop"]
StepFail == [step |-> "Fail"]
StepNext == [step |-> "Next"]
StepJump(pos) == [step |-> "Jump", pos |-> pos]
StepCall(s) == [step |-> "Call", site |-> s]
StepRet(s) == [step |-> "Ret", site |-> s]

\* mutant: the shift is added to the offset after the two bytes of the instruction
shift_jump_after(cursor, shift) ==
    IF cursor.offset + 2 + shift < 0 \/ cursor.offset + 2 + shift > U16_MAX
    THEN StepFail
    ELSE StepJump(cursor.offset + 2 + shift)

\* the closure shift_jump of CtrlInstr::exec: u16::checked_add_signed
shift_jump(cursor, shift) ==
    IF cursor.offset + shift < 0 \/ cursor.offset + shift > U16_MAX
    THEN StepFail
    ELSE StepJump(cursor.offset + shift)

\* the outcome of an instruction: the core it leaves and the ExecStep it returns
Outcome(c, step) == [core |-> c, step |-> step]

\* CtrlInstr::exec, the arms of the match
ExecNop(c) == Outcome(c, StepNext)

ExecChkCo(c) == IF ~is_ok(c.co) THEN Outcome(c, StepFail) ELSE Outcome(c, StepNext)

\* mutant: ChkCk reports a failure when CK is failed
ExecChkCkFails(c) == IF ~is_ok(c.ck) THEN Outcome(c, StepFail) ELSE Outcome(c, StepNext)

ExecChkCk(c) == IF ~is_ok(c.ck) THEN Outcome(c, StepStop) ELSE Outcome(c, StepNext)

\* mutant: FailCk drops the flag fail_ck returns and always goes on
ExecFailCkIgnoresHalt(c) == Outcome(FailCkCore(c), StepNext)

\* mutant: FailCk stops whatever fail_ck returns
ExecFailCkAlwaysStops(c) == Outcome(FailCkCore(c), StepStop)

\* mutant: FailCk stops whenever CH is set, whatever CF was
ExecFailCkStopsOnCh(c) ==
    IF c.ch THEN Outcome(FailCkCore(c), StepStop)
    ELSE Outcome(FailCkCore(c), StepNext)

ExecFailCk(c) ==
    IF FailCkStops(c) THEN Outcome(FailCkCore(c), StepStop)
    ELSE Outcome(FailCkCore(c), StepNext)

\* mutant: RsetCk clears the failure counter with CK
ExecRsetCkClearsCf(c) ==
    Outcome(reset_ck(set_co([c EXCEPT !.cf = 0], c.ck)), StepNext)

\* mutant: RsetCk sets CK to Ok and leaves CO as it is
ExecRsetCkKeepsCo(c) == Outcome(reset_ck(c), StepNext)

ExecRsetCk(c) == Outcome(reset_ck(set_co(c, c.ck)), StepNext)

ExecNotCo(c) == Outcome(set_co(c, Not(c.co)), StepNext)

\* mutant: Jmp does not jump
ExecJmpFallsThrough(pos, c) == Outcome(c, StepNext)

ExecJmp(pos, c) == Outcome(c, StepJump(pos))

\* mutant: JiOvfl jumps when CO is Ok
ExecJiOvflOnOk(pos, c) ==
    IF c.co = Ok THEN Outcome(c, StepJump(pos)) ELSE Outcome(c, StepNext)

ExecJiOvfl(pos, c) ==
    IF c.co = Fail THEN Outcome(c, StepJump(pos)) ELSE Outcome(c, StepNext)

ExecJiFail(pos, c) ==
    IF c.ck = Fail THEN Outcome(c, StepJump(pos)) ELSE Outcome(c, StepNext)

ExecSh(shift, cursor, c) == Outcome(c, shift_jump(cursor, shift))

ExecShOvfl(shift, cursor, c) ==
    IF c.co = Fail THEN Outcome(c, shift_jump(cursor, shift)) ELSE Outcome(c, StepNext)

ExecShFail(shift, cursor, c) ==
    IF c.ck = Fail THEN Outcome(c, shift_jump(cursor, shift)) ELSE Outcome(c, StepNext)

\* mutant: Exec jumps to the offset inside the current library
ExecExecLocal(s, c) == Outcome(c, StepJump(s.offset))

ExecExec(s, c) == Outcome(c, StepCall(s))

\* mutant: Fn pushes the site after the Fn instruction
ExecFnPushesNext(pos, cursor, c) ==
    IF PushCsOk(c)
    THEN Outcome(push_cs(c, Site(cursor.prog_id, cursor.offset + 3)), StepJump(pos))
    ELSE Outcome(c, StepFail)

\* mutant: Fn pushes without looking at what push_cs returns
ExecFnUnchecked(pos, cursor, c) ==
    Outcome([c EXCEPT !.cs = Append(c.cs, cursor), !.cp = c.cp + 1], StepJump(pos))

ExecFn(pos, cursor, c) ==
    IF PushCsOk(c) THEN Outcome(push_cs(c, cursor), StepJump(pos))
    ELSE Outcome(c, StepFail)

\* mutant: Call transfers control without a frame, as Exec does
ExecCallNoFrame(s, cursor, c) == Outcome(c, StepCall(s))

ExecCall(s, cursor, c) ==
    IF PushCsOk(c) THEN Outcome(push_cs(c, cursor), StepCall(s))
    ELSE Outcome(c, StepFail)

\* mutant: Ret on an empty call stack is reported as a failure
ExecRetFailsOnEmpty(c) ==
    IF PopCsOk(c) THEN Outcome(pop_cs(c), StepRet(PopCsSite(c)))
    ELSE Outcome(c, StepFail)

ExecRet(c) ==
    IF PopCsOk(c) THEN Outcome(pop_cs(c), StepRet(PopCsSite(c)))
    ELSE Outcome(c, StepStop)

ExecStop(c) == Outcome(c, StepStop)

\* CtrlInstr::exec
CtrlExec(instr, cursor, c) ==
    CASE instr.op = "Nop" -> ExecNop(c)
      [] instr.op = "ChkCo" -> ExecChkCo(c)
      [] instr.op = "ChkCk" -> ExecChkCk(c)
      [] instr.op = "FailCk" -> ExecFailCk(c)
      [] instr.op = "RsetCk" -> ExecRsetCk(c)
      [] instr.op = "NotCo" -> ExecNotCo(c)
      [] instr.op = "Jmp" -> ExecJmp(instr.pos, c)
      [] instr.op = "JiOvfl" -> ExecJiOvfl(instr.pos, c)
      [] instr.op = "JiFail" -> ExecJiFail(instr.pos, c)
      [] instr.op = "Sh" -> ExecSh(instr.shift, cursor, c)
      [] instr.op = "ShOvfl" -> ExecShOvfl(instr.shift, cursor, c)
      [] instr.op = "ShFail" -> ExecShFail(instr.shift, cursor, c)
      [] instr.op = "Exec" -> ExecExec(instr.site, c)
      [] instr.op = "Fn" -> ExecFn(instr.pos, cursor, c)
      [] instr.op = "Call" -> ExecCall(instr.site, cursor, c)
      [] instr.op = "Ret" -> ExecRet(c)
      [] instr.op = "Stop" -> ExecStop(c)

\* ReservedInstr::exec
\* mutant: a reserved instruction stops the program
ReservedExecStops(instr, cursor, c) == Outcome(c, StepStop)

ReservedExec(instr, cursor, c) == Outcome(c, StepFail)

\* Instr::exec: dispatch to the instruction set of the instruction
InstrExec(instr, cursor, c) ==
    IF instr.op = "Reserved" THEN ReservedExec(instr, cursor, c)
    ELSE CtrlExec(instr, cursor, c)

----------------------------------------------------------------------------
(* Libraries and the resolver *)

Lib(code, libs) == [code |-> code, libs |-> libs]

NoLib == Lib(<< >>, << >>)

\* The sets of libraries the resolver can serve: library "A" and library "B"
Scenarios ==
    << [A |-> Lib(<<NOP, STOP>>, << >>), B |-> NoLib],
       [A |-> Lib(<<FAIL, STOP>>, << >>), B |-> NoLib],
       [A |-> Lib(<<FAIL>>, << >>), B |-> NoLib],
       [A |-> Lib(<<JMP, 3, 0, STOP, STOP>>, << >>), B |-> NoLib],
       [A |-> Lib(<<EXEC, 0, 0, 0>>, <<"B">>), B |-> Lib(<<STOP>>, << >>)],
       [A |-> Lib(<<RSET, FAIL, STOP>>, << >>), B |-> NoLib],
       [A |-> Lib(<<17, NOP, STOP>>, << >>), B |-> NoLib],
       [A |-> Lib(<<NOCO, CHCO, STOP>>, << >>), B |-> NoLib],
       [A |-> Lib(<<SH, 255, STOP>>, << >>), B |-> NoLib],
       [A |-> Lib(<<NOCO, SHNE, 3, FAIL, STOP>>, << >>), B |-> NoLib],
       [A |-> Lib(<<FAIL, JIFAIL, 5, 0, NOP, STOP>>, << >>), B |-> NoLib],
       [A |-> Lib(<<FAIL, EXEC, 0, 253, 255>>, <<"X">>), B |-> NoLib],
       [A |-> Lib(<<FN, 0, 0, STOP>>, << >>), B |-> NoLib],
       [A |-> Lib(<<NOP, JMP, 5, 0, FAIL, RET>>, << >>), B |-> NoLib],
       [A |-> Lib(<<SH, 2, SHFAIL, 2, JINE, 0, 0, CHCK, FAIL, CHCK, STOP>>, << >>), B |-> NoLib],
       [A |-> Lib(<<CALL, 0, 0, 0, STOP>>, <<"A">>), B |-> NoLib] >>

\* Libraries whose runs end only by the cycle limit
CyScenarios ==
    << [A |-> Lib(<<JMP, 0, 0>>, << >>), B |-> NoLib],
       [A |-> Lib(<<FN, 4, 0, STOP, RET>>, << >>), B |-> NoLib],
       [A |-> Lib(<<CALL, 0, 0, 0, STOP>>, <<"B">>), B |-> Lib(<<RET>>, << >>)],
       [A |-> Lib(<<FAIL, NOCO, SHNE, 255, SHFAIL, 253>>, << >>), B |-> NoLib] >>

\* Libraries that return from a call and come to the complexity limit
LimitScenarios ==
    << [A |-> Lib(<<FN, 4, 0, STOP, SH, 2, RET>>, << >>), B |-> NoLib],
       [A |-> Lib(<<CALL, 0, 0, 0>>, <<"B">>), B |-> Lib(<<SH, 2, RET>>, << >>)],
       [A |-> Lib(<<FN, 3, 0, CALL, 0, 0, 0>>, <<"B">>), B |-> Lib(<<SH, 2, RET>>, << >>)] >>

\* length of the run of Nop instructions of the long program
NopRun == 33000

\* NopRun times Nop, then ChkCk, FailCk and a jump back to offset 0
LongLoopCode == [i \in 1..NopRun |-> NOP] \o <<CHCK, FAIL, JMP, 0, 0>>

\* Libraries whose only jumps are unconditional: Jmp and Sh
JmpScenarios ==
    << [A |-> Lib(<<JMP, 0, 0>>, << >>), B |-> NoLib],
       [A |-> Lib(LongLoopCode, << >>), B |-> NoLib],
       [A |-> Lib(<<JMP, 3, 0, STOP, STOP>>, << >>), B |-> NoLib],
       [A |-> Lib(<<SH, 255>>, << >>), B |-> NoLib],
       [A |-> Lib(<<SH, 2, FAIL, RSET, NOCO, CHCK, NOP>>, << >>), B |-> NoLib],
       [A |-> Lib(<<FAIL, SH, 4, STOP, STOP, CHCK, JMP, 3, 0>>, << >>), B |-> NoLib] >>

AllScenarios == Scenarios \o CyScenarios \o LimitScenarios \o JmpScenarios

\* lib_resolver: Some(lib) for "A" and "B", None for any other id
Resolves(id) == id \in {"A", "B"}
Resolver(s, id) == IF id = "A" THEN AllScenarios[s].A ELSE AllScenarios[s].B

\* the complexity limits a Vm is configured with
Limits == {None, Some(U64_ZERO), Some(U64(16000)), Some(U64_MAX)}

\* the limits of the libraries that return from a call
LoopLimits == {Some(U64(40000)), Some(U64(560000))}

\* the entry points of Vm::exec
EntryPoints == {Site("A", 0), Site("X", U16_MAX - 1)}

----------------------------------------------------------------------------
(* Lib::exec: one iteration of the dispatch loop *)

\* What an iteration hands on: Jump::Halt, Jump::Instr(site), Jump::Next(site),
\* "Cont" (the loop goes on at offset site.offset of the same library), or
\* "Panic"
Iter(c, kind, instr, step, jump, s, charged) ==
    [core |-> c, kind |-> kind, instr |-> instr, step |-> step, jump |-> jump,
     site |-> s, charged |-> charged]

NoInstr == [op |-> "None"]
NoStep == [step |-> "None"]

\* mutant: the cap is tested one jump too late
CyExhaustedLate(c) == c.cy > CY_MAX

\* the cycle counter CY: the jump is refused once CY is at its cap
CyExhausted(c) == c.cy >= CY_MAX
\* mutant: a taken jump is not counted
CyNotCounted(c) == c

CyCount(c) == [c EXCEPT !.cy = c.cy + 1]

\* a taken jump to site s, handed on as jump: CY is counted first
TakeJump(c, instr, step, jump, s, charged) ==
    IF CyExhausted(c)
    THEN Iter(FailCkCore(c), "cycles", instr, step, "Halt", s, charged)
    ELSE Iter(CyCount(c), "instr", instr, step, jump, s, charged)

\* interpret the ExecStep an instruction returned; next is the offset after it
Interpret(out, instr, lib_id, next, charged) ==
    LET c == out.core
        step == out.step
        here == Site(lib_id, next)
    IN  CASE step.step = "Stop" -> Iter(c, "instr", instr, step, "Halt", here, charged)
          [] step.step = "Fail" ->
                Iter(FailCkCore(c), "instr", instr, step,
                     IF FailCkStops(c) THEN "Halt" ELSE "Cont", here, charged)
          [] step.step = "Next" -> Iter(c, "instr", instr, step, "Cont", here, charged)
          [] step.step = "Jump" ->
                TakeJump(c, instr, step, "Cont", Site(lib_id, step.pos), charged)
          [] step.step = "Call" -> TakeJump(c, instr, step, "Instr", step.site, charged)
          [] step.step = "Ret" -> TakeJump(c, instr, step, "Next", step.site, charged)

\* the one value of a singleton set: binds a computed value to a name
The(S) == CHOOSE x \in S : TRUE

\* the instruction dec.val, charged on the core `charged`, is executed unless
\* the complexity limit is reached
LibExecCharged(charged, dec, here, skip_first) ==
    IF ~skip_first /\ LimitReached(charged)
    THEN Iter(FailCkCore(charged), "limit", dec.val, NoStep, "Halt", here, TRUE)
    ELSE The({Interpret(out, dec.val, here.prog_id, dec.pos, ~skip_first) :
                 out \in {InstrExec(dec.val, here, charged)}})

\* what follows the decoding of an instruction, dec being what decode_instr gave
LibExecDecoded(c, dec, here, skip_first, eof) ==
    IF eof
    THEN Iter(c, "eof", NoInstr, NoStep, "Halt", here, FALSE)
    ELSE IF dec.tag = "Panic"
    THEN Iter(c, "panic", NoInstr, NoStep, "Panic", here, FALSE)
    ELSE IF dec.tag = "CodeEof"
    THEN Iter(c, "eof", NoInstr, NoStep, "Halt", here, FALSE)
    ELSE The({LibExecCharged(charged, dec, here, skip_first) :
                 charged \in {IF skip_first THEN c
                              ELSE AccComplexity(c, complexity(dec.val))}})

\* one iteration at offset `offset` of library lib (whose id is lib_id)
LibExecStep(c, lib, lib_id, offset, skip_first) ==
    The({LibExecDecoded(c, dec, Site(lib_id, offset), skip_first, offset >= Len(lib.code)) :
            dec \in {decode_instr(lib.code, lib.libs, offset)}})

----------------------------------------------------------------------------
(* The Vm *)

NoLast == [kind |-> "none"]

NoCodec == [phase |-> "off"]

\* the sites recorded of a run: its first MaxPath sites
MaxPath == 16
Visit(path, s) == IF Len(path) < MaxPath THEN Append(path, s) ELSE path

\* no run came before
NoRun == [ran |-> FALSE]

NewHist(c, entry) ==
    [dispatched |-> 0, jumps |-> 0, cf0 |-> c.cf, cy0 |-> c.cy, ck0 |-> c.ck,
     entry |-> entry, trans |-> 0, lookups |-> 0,
     core0 |-> c, path |-> << >>, steps |-> 0, final |-> c, prev |-> NoRun]

\* what is kept of a run when the next one begins
RunRecord(h) ==
    [ran |-> TRUE, core0 |-> h.core0, entry |-> h.entry, path |-> h.path,
     steps |-> h.steps, final |-> h.final]

\* 1 when CK goes from Ok to Fail between the cores c and d, 0 otherwise
FailTransition(c, d) == IF c.ck = Ok /\ d.ck = Fail THEN 1 ELSE 0

\* Vm::with
VmWith(config) == CoreWith(config)

InitVm(indexes, limits) ==
    /\ \E halt \in BOOLEAN, lim \in limits : core_config = CoreConfig(halt, lim)
    /\ core = VmWith(core_config)
    /\ scn \in indexes
    /\ site = Site("A", 0)
    /\ skip = FALSE
    /\ vmpc = "idle"
    /\ runs = 0
    /\ last = NoLast
    /\ hist = NewHist(core, site)
    /\ codec = NoCodec

Init ==
    \/ InitVm(1..Len(Scenarios), Limits)
    \/ InitVm(Len(Scenarios) + Len(CyScenarios) + 1 ..
                Len(Scenarios) + Len(CyScenarios) + Len(LimitScenarios), LoopLimits)

\* mutant: a later run goes on at the site where the run before it ended
VmExecResumes(entry) ==
    /\ vmpc \in {"idle", "done"}
    /\ runs < MaxRuns
    /\ vmpc' = "run"
    /\ site' = IF runs = 0 THEN entry ELSE site
    /\ skip' = FALSE
    /\ runs' = runs + 1
    /\ last' = NoLast
    /\ hist' = [NewHist(core, entry) EXCEPT
                  !.prev = IF runs = 0 THEN NoRun ELSE RunRecord(hist)]
    /\ UNCHANGED <<core, scn, core_config, codec>>

\* mutant: Vm::exec starts every run on a core that was reset
VmExecResets(entry) ==
    /\ vmpc \in {"idle", "done"}
    /\ runs < MaxRuns
    /\ vmpc' = "run"
    /\ site' = entry
    /\ skip' = FALSE
    /\ runs' = runs + 1
    /\ last' = NoLast
    /\ core' = CoreReset(core)
    /\ hist' = [NewHist(core, entry) EXCEPT
                  !.prev = IF runs = 0 THEN NoRun ELSE RunRecord(hist)]
    /\ UNCHANGED <<scn, core_config, codec>>

\* Vm::exec is called with an entry point
VmExec(entry) ==
    /\ vmpc \in {"idle", "done"}
    /\ runs < MaxRuns
    /\ vmpc' = "run"
    /\ site' = entry
    /\ skip' = FALSE
    /\ runs' = runs + 1
    /\ last' = NoLast
    /\ hist' = [NewHist(core, entry) EXCEPT
                  !.prev = IF runs = 0 THEN NoRun ELSE RunRecord(hist)]
    /\ UNCHANGED <<core, scn, core_config, codec>>

\* mutant: the driver passes skip = false after a Jump::Next as well
VmStepNeverSkips ==
    /\ vmpc = "run"
    /\ Resolves(site.prog_id)
    /\ \E it \in {LibExecStep(core, Resolver(scn, site.prog_id), site.prog_id,
                              site.offset, skip)} :
           /\ core' = it.core
           /\ last' = [kind |-> it.kind, instr |-> it.instr, step |-> it.step,
                       at |-> site, pre |-> core, jump |-> it.jump,
                       charged |-> it.charged, skipped |-> skip]
           /\ hist' = [hist EXCEPT
                         !.dispatched = @ + (IF it.kind \in {"instr", "cycles"} THEN 1 ELSE 0),
                         !.jumps = @ + (IF it.step.step \in {"Jump", "Call", "Ret"}
                                        THEN 1 ELSE 0),
                         !.trans = @ + FailTransition(core, it.core),
                         !.path = Visit(@, site),
                         !.steps = @ + 1,
                         !.final = it.core]
           /\ vmpc' = CASE it.jump = "Halt" -> "done"
                        [] it.jump = "Panic" -> "panic"
                        [] OTHER -> "run"
           /\ site' = IF it.jump \in {"Cont", "Instr", "Next"} THEN it.site ELSE site
           /\ skip' = FALSE
    /\ UNCHANGED <<scn, core_config, runs, codec>>

\* Vm::exec, the library resolves: Lib::exec runs one instruction
VmStep ==
    /\ vmpc = "run"
    /\ Resolves(site.prog_id)
    /\ \E it \in {LibExecStep(core, Resolver(scn, site.prog_id), site.prog_id,
                              site.offset, skip)} :
           /\ core' = it.core
           /\ last' = [kind |-> it.kind, instr |-> it.instr, step |-> it.step,
                       at |-> site, pre |-> core, jump |-> it.jump,
                       charged |-> it.charged, skipped |-> skip]
           /\ hist' = [hist EXCEPT
                         !.dispatched = @ + (IF it.kind \in {"instr", "cycles"} THEN 1 ELSE 0),
                         !.jumps = @ + (IF it.step.step \in {"Jump", "Call", "Ret"}
                                        THEN 1 ELSE 0),
                         !.trans = @ + FailTransition(core, it.core),
                         !.path = Visit(@, site),
                         !.steps = @ + 1,
                         !.final = it.core]
           /\ vmpc' = CASE it.jump = "Halt" -> "done"
                        [] it.jump = "Panic" -> "panic"
                        [] OTHER -> "run"
           /\ site' = IF it.jump \in {"Cont", "Instr", "Next"} THEN it.site ELSE site
           /\ skip' = CASE it.jump = "Next" -> TRUE
                        [] it.jump \in {"Instr", "Cont"} -> FALSE
                        [] OTHER -> skip
    /\ UNCHANGED <<scn, core_config, runs, codec>>

\* mutant: the driver retries an unresolved library at the same offset
VmUnresolvedInPlace ==
    /\ vmpc = "run"
    /\ ~Resolves(site.prog_id)
    /\ core' = FailCkCore(core)
    /\ last' = [kind |-> "unresolved", at |-> site, pre |-> core,
                stop |-> FailCkStops(core)]
    /\ vmpc' = IF FailCkStops(core) THEN "done" ELSE "run"
    /\ site' = site
    /\ hist' = [hist EXCEPT !.trans = @ + FailTransition(core, FailCkCore(core)),
                             !.lookups = @ + 1,
                             !.path = Visit(@, site),
                             !.steps = @ + 1,
                             !.final = FailCkCore(core)]
    /\ UNCHANGED <<skip, scn, core_config, runs, codec>>

\* Vm::exec, the library does not resolve
VmUnresolved ==
    /\ vmpc = "run"
    /\ ~Resolves(site.prog_id)
    /\ core' = FailCkCore(core)
    /\ last' = [kind |-> "unresolved", at |-> site, pre |-> core,
                stop |-> FailCkStops(core)]
    /\ IF FailCkStops(core)
       THEN vmpc' = "done" /\ site' = site
       ELSE IF site.offset + 1 <= U16_MAX
       THEN vmpc' = "run" /\ site' = [site EXCEPT !.offset = site.offset + 1]
       ELSE vmpc' = "done" /\ site' = site
    /\ hist' = [hist EXCEPT !.trans = @ + FailTransition(core, FailCkCore(core)),
                             !.lookups = @ + 1,
                             !.path = Visit(@, site),
                             !.steps = @ + 1,
                             !.final = FailCkCore(core)]
    /\ UNCHANGED <<skip, scn, core_config, runs, codec>>

\* Vm::reset
VmReset ==
    /\ vmpc \in {"idle", "done"}
    /\ core' = CoreReset(core)
    /\ last' = [kind |-> "reset", pre |-> core]
    /\ UNCHANGED <<site, skip, vmpc, scn, core_config, runs, hist, codec>>

Next ==
    \/ \E entry \in EntryPoints : VmExec(entry)
    \/ VmStep
    \/ VmUnresolved
    \/ VmReset

Spec == Init /\ [][Next]_vars

\* the runs that the cycle limit ends
InitCy == InitVm(Len(Scenarios) + 1 .. Len(Scenarios) + Len(CyScenarios), {None})

\* one run of Vm::exec on a fresh Vm
NextCy ==
    \/ runs = 0 /\ VmExec(Site("A", 0))
    \/ VmStep

SpecCy == InitCy /\ [][NextCy]_vars

----------------------------------------------------------------------------
(* Properties *)

\* the latest step belongs to the run in progress (or just ended)
InRunStep == last.kind \in {"instr", "limit", "cycles", "unresolved", "eof", "panic"}

\* the run was entered at offset 0 of library "A", whose code is `code`
Runs(code) == hist.entry = Site("A", 0) /\ Resolver(scn, "A").code = code

FailCkInstr == last.kind = "instr" /\ last.instr = FailCk
FailStep == last.kind = "instr" /\ last.step = StepFail
FailUnresolved == last.kind = "unresolved"
FailCkReturned == last.pre.ch /\ last.pre.cf = 0

\* C2: with CH = false FailCk sets CK to Fail, returns Next and the run goes on
\* at the instruction after it; [FAIL, STOP] with halt = false (and the
\* complexity limit not reached) executes STOP and ends with CK = Fail, CF = 1.
C2_FailCkNotFatal ==
    /\ (FailCkInstr /\ ~last.pre.ch) =>
           /\ last.step = StepNext
           /\ core.ck = Fail
           /\ core.cf = last.pre.cf + 1
           /\ vmpc = "run"
           /\ site = Site(last.at.prog_id, last.at.offset + 1)
    /\ (/\ Runs(<<FAIL, STOP>>) /\ ~core.ch /\ hist.cf0 = 0
        /\ vmpc = "done" /\ InRunStep /\ last.kind # "limit") =>
           /\ last.kind = "instr" /\ last.instr = Stop /\ last.at = Site("A", 1)
           /\ core.ck = Fail /\ core.cf = 1
           /\ hist.dispatched = 2

\* C2, witness: [FAIL, STOP] with halt = false has ended at STOP with CK = Fail
C2_Witness ==
    /\ Runs(<<FAIL, STOP>>) /\ ~core.ch /\ hist.cf0 = 0
    /\ vmpc = "done" /\ last.kind = "instr" /\ last.instr = Stop
    /\ core.ck = Fail /\ core.cf = 1

\* C3, as stated: fail_ck sets CK = Fail, adds one to CF and returns
\* CH /\ (CF was 0); each of its three callers stops if and only if it
\* returned true.
C3_CallersStopIffReturned ==
    /\ (FailCkInstr \/ FailStep \/ FailUnresolved) =>
           (core.ck = Fail /\ core.cf = last.pre.cf + 1)
    /\ FailCkInstr => (last.step = StepStop <=> FailCkReturned)
    /\ (FailCkInstr \/ FailStep \/ FailUnresolved) =>
           (vmpc = "done" <=> FailCkReturned)

\* C3, amended: as above, but the VM driver on an unresolved library also
\* stops, though fail_ck returned false, when the offset is 0xFFFF and cannot
\* be advanced; otherwise it goes on at offset + 1.
C3_FailCkCallers ==
    /\ (FailCkInstr \/ FailStep \/ FailUnresolved) =>
           (core.ck = Fail /\ core.cf = last.pre.cf + 1 /\ core.ch = last.pre.ch)
    /\ FailCkInstr => (last.step = StepStop <=> FailCkReturned)
    /\ (FailCkInstr \/ FailStep) => (vmpc = "done" <=> FailCkReturned)
    /\ FailUnresolved =>
           /\ last.stop = FailCkReturned
           /\ vmpc = "done" <=> (FailCkReturned \/ last.at.offset = U16_MAX)
           /\ vmpc = "run" => site = Site(last.at.prog_id, last.at.offset + 1)

\* C3, witness: the driver went on after an unresolved library because fail_ck
\* returned false, and a FailCk instruction stopped because it returned true
C3_Witness ==
    \/ FailUnresolved /\ ~FailCkReturned /\ vmpc = "run"
    \/ FailCkInstr /\ FailCkReturned /\ vmpc = "done"

----------------------------------------------------------------------------
(* Encoding and decoding one instruction through the marshaller *)

\* longest libs segment and longest operand tail of the inputs
MaxLibs == 2
MaxTail == 2

CodecPos == {0, 1, 27051, 30126, U16_MAX}        \* 0x69AB, 0x75AE
CodecShifts == {-128, -5, -1, 0, 1, 127}
CodecOffsets == {0, 27051, U16_MAX}
CodecSites == {Site(id, off) : id \in LibIds, off \in CodecOffsets}

CtrlInstrs ==
    {Nop, ChkCo, ChkCk, NotCo, FailCk, RsetCk, Ret, Stop}
      \cup {Jmp(p) : p \in CodecPos} \cup {JiOvfl(p) : p \in CodecPos}
      \cup {JiFail(p) : p \in CodecPos} \cup {Fn(p) : p \in CodecPos}
      \cup {Sh(s) : s \in CodecShifts} \cup {ShOvfl(s) : s \in CodecShifts}
      \cup {ShFail(s) : s \in CodecShifts}
      \cup {Exec(s) : s \in CodecSites} \cup {Call(s) : s \in CodecSites}

ReservedInstrs == {ReservedInstr(o) : o \in (END + 1)..255}

\* libs segments: sequences of distinct library ids
IsLibsSeg(s) == \A i, j \in 1..Len(s) : i # j => s[i] # s[j]
SeqsUpTo(S, n) == UNION {[1..k -> S] : k \in 0..n}
LibsSegs == {s \in SeqsUpTo(LibIds, MaxLibs) : IsLibsSeg(s)}

\* code already in the writer before the instruction is encoded
Prefixes == {<<>>, <<STOP>>}

\* raw code segments: any opcode byte and a tail of operand bytes
TailBytes == {0, 1, 171, 255}
RawCodes == {<<o>> \o t : o \in Byte, t \in SeqsUpTo(TailBytes, MaxTail)}
RawLibs == {<<>>, <<"A", "B">>}

InSeg(libs, id) == \E i \in 1..Len(libs) : libs[i] = id

InitCodec == InitVm({1}, {None}) /\ core.ch = FALSE

\* instr.encode_instr(&mut marshaller) on a writer holding prefix and libs
CodecEncode(instr, prefix, libs) ==
    /\ codec.phase = "off"
    /\ codec' = [phase |-> "encoded", instr |-> instr, prefix |-> prefix,
                 libs0 |-> libs, w |-> encode_instr(instr, Writer(prefix, libs))]
    /\ UNCHANGED <<core, site, skip, vmpc, scn, core_config, runs, last, hist>>

\* Instr::decode_instr on the segments just written, at the end of the prefix
CodecDecode ==
    /\ codec.phase = "encoded"
    /\ codec.w.tag = "Ok"
    /\ codec' = [codec EXCEPT !.phase = "decoded"] @@
                [dec |-> decode_instr(codec.w.code, codec.w.libs, Len(codec.prefix))]
    /\ UNCHANGED <<core, site, skip, vmpc, scn, core_config, runs, last, hist>>

\* Instr::decode_instr at offset 0 of an arbitrary code segment
CodecRaw(code, libs) ==
    /\ codec.phase = "off"
    /\ codec' = [phase |-> "raw", code |-> code, libs |-> libs,
                 dec |-> decode_instr(code, libs, 0)]
    /\ UNCHANGED <<core, site, skip, vmpc, scn, core_config, runs, last, hist>>

NextCodec ==
    \/ /\ codec.phase = "off"
       /\ \E instr \in CtrlInstrs \cup ReservedInstrs, prefix \in Prefixes,
             libs \in LibsSegs : CodecEncode(instr, prefix, libs)
    \/ CodecDecode
    \/ /\ codec.phase = "off"
       /\ \E code \in RawCodes, libs \in RawLibs : CodecRaw(code, libs)

SpecCodec == InitCodec /\ [][NextCodec]_vars

IsCtrl(instr) == instr.op # "Reserved"
HasSite(instr) == instr.op \in SiteOps
\* the precondition of the round trip: the library of a site is in the segment
ValidLibs(instr, libs) == HasSite(instr) => InSeg(libs, instr.site.prog_id)

\* C4, as stated: decoding what encoding a CtrlInstr wrote gives it back
C4_RoundTrip ==
    (/\ codec.phase = "decoded" /\ IsCtrl(codec.instr)
     /\ ValidLibs(codec.instr, codec.libs0)) =>
        (codec.dec.tag = "Ok" /\ codec.dec.val = codec.instr)

\* operand bytes the opcode implies
OperandBytes(opcode) ==
    CASE opcode \in {JMP, JINE, JIFAIL, FN} -> 2
      [] opcode \in {SH, SHNE, SHFAIL} -> 1
      [] opcode \in {EXEC, CALL} -> 3
      [] OTHER -> 0

\* C5, as stated: decoding never panics; an opcode of 0..16 with its operand
\* bytes gives an instruction of that opcode, any other opcode gives
\* ReservedInstr(opcode), too few operand bytes give CodeEof.
C5_DecodeNeverPanics ==
    codec.phase = "raw" =>
        LET opcode == codec.code[1]
        IN  /\ codec.dec.tag # "Panic"
            /\ IF Len(codec.code) - 1 < OperandBytes(opcode)
               THEN codec.dec = CodeEof
               ELSE /\ codec.dec.tag = "Ok"
                    /\ opcode_byte(codec.dec.val) = opcode
                    /\ IsCtrl(codec.dec.val) <=> opcode <= END
                    /\ opcode > END => codec.dec.val = ReservedInstr(opcode)

\* C6, as stated: the encoder writes code_byte_len() bytes and the decoder
\* consumes as many: 1, 2 for shifts, 3 for positions, 4 for sites.
C6_LengthsAgree ==
    (codec.phase \in {"encoded", "decoded"} /\ codec.w.tag = "Ok") =>
        /\ Len(codec.w.code) - Len(codec.prefix) = code_byte_len(codec.instr)
        /\ code_byte_len(codec.instr) = 1 + OperandBytes(opcode_byte(codec.instr))
        /\ codec.phase = "decoded" =>
               /\ codec.dec.tag = "Ok"
               /\ codec.dec.pos - Len(codec.prefix) = code_byte_len(codec.instr)

\* the opcode table of the wire format
WireOpcode(op) ==
    CASE op = "Nop" -> 0 [] op = "NotCo" -> 1 [] op = "ChkCo" -> 2 [] op = "ChkCk" -> 3
      [] op = "FailCk" -> 4 [] op = "RsetCk" -> 5 [] op = "Jmp" -> 6 [] op = "JiOvfl" -> 7
      [] op = "JiFail" -> 8 [] op = "Sh" -> 9 [] op = "ShOvfl" -> 10 [] op = "ShFail" -> 11
      [] op = "Exec" -> 12 [] op = "Fn" -> 13 [] op = "Call" -> 14 [] op = "Ret" -> 15
      [] op = "Stop" -> 16

LowByte(word) == word % 256
HighByte(word) == word \div 256
TwosComplement(shift) == IF shift < 0 THEN 256 + shift ELSE shift

\* position (from 0) of id in libs; id must be in libs
SegIndex(libs, id) == (CHOOSE i \in 1..Len(libs) : libs[i] = id) - 1

\* the bytes of a CtrlInstr on the wire, libs being the libs segment
WireBytes(instr, libs) ==
    <<WireOpcode(instr.op)>> \o
    CASE instr.op \in PosOps -> <<LowByte(instr.pos), HighByte(instr.pos)>>
      [] instr.op \in ShiftOps -> <<TwosComplement(instr.shift)>>
      [] instr.op \in SiteOps ->
            <<SegIndex(libs, instr.site.prog_id),
              LowByte(instr.site.offset), HighByte(instr.site.offset)>>
      [] OTHER -> <<>>

Encoded(instr) == codec.phase = "encoded" /\ codec.w.tag = "Ok" /\ codec.instr = instr

Written == SubSeq(codec.w.code, Len(codec.prefix) + 1, Len(codec.w.code))

\* C7: a CtrlInstr is written as its opcode byte (Nop 0 .. Stop 16) and its
\* operands: a u16 low byte first, an i8 as its two's-complement byte, the
\* library of a site as the byte index of its id in the libs segment, then the
\* offset; Jmp{0x75AE} = [06,AE,75], Sh{-5} = [09,FB] and Call{(id at index 0,
\* 0x69AB)} = [0E,00,AB,69].
C7_WireFormat ==
    /\ (codec.phase = "encoded" /\ codec.w.tag = "Ok" /\ IsCtrl(codec.instr)) =>
           /\ Written = WireBytes(codec.instr, codec.w.libs)
           /\ ValidLibs(codec.instr, codec.libs0) => codec.w.libs = codec.libs0
    /\ Encoded(Jmp(30126)) => Written = <<6, 174, 117>>
    /\ Encoded(Sh(-5)) => Written = <<9, 251>>
    /\ (Encoded(Call(Site("B", 27051))) /\ Len(codec.libs0) > 0 /\ codec.libs0[1] = "B")
           => Written = <<14, 0, 171, 105>>

\* C7, witness: a Call to a library at index 1 of the libs segment was encoded
\* behind code already in the segment
C7_Witness ==
    /\ Encoded(Call(Site("B", 27051))) /\ codec.libs0 = <<"A", "B">>
    /\ codec.prefix = <<STOP>>
    /\ Written = <<14, 1, 171, 105>>

\* the latest step was a taken jump that was counted / that was refused
JumpSteps == {"Jump", "Call", "Ret"}
TookJump == last.kind = "instr" /\ last.step.step \in JumpSteps
RefusedJump == last.kind = "cycles"
Stepped == last.kind \in {"instr", "cycles"}
\* instructions that always jump, and those that jump on a condition
AlwaysJumps == {"Jmp", "Exec"}
JumpsIfPushed == {"Fn", "Call"}
CondJumps == {"JiOvfl", "ShOvfl", "JiFail", "ShFail"}
Cond(c, op) == IF op \in {"JiOvfl", "ShOvfl"} THEN c.co = Fail ELSE c.ck = Fail

\* what C8 says of every state but for the ordinal of the refused jump
CyCounted ==
    /\ core.cy <= CY_MAX
    /\ TookJump => (core.cy = last.pre.cy + 1 /\ core.ck = last.pre.ck)
    /\ (last.kind = "instr" /\ last.step.step \notin JumpSteps) => core.cy = last.pre.cy
    /\ RefusedJump =>
           /\ last.step.step \in JumpSteps
           /\ last.pre.cy = CY_MAX /\ core.cy = CY_MAX
           /\ core.ck = Fail /\ vmpc = "done"
    /\ (Stepped /\ last.instr.op \in AlwaysJumps) => (TookJump \/ RefusedJump)
    /\ (Stepped /\ last.instr.op \in {"Jmp", "JiOvfl", "JiFail", "Fn"}
          /\ last.step.step = "Jump") => last.step.pos = last.instr.pos
    /\ (Stepped /\ last.instr.op \in JumpsIfPushed /\ Len(last.pre.cs) < CALL_STACK_SIZE_MAX)
           => (TookJump \/ RefusedJump)
    /\ (Stepped /\ last.instr.op \in {"JiOvfl", "JiFail"}) =>
           ((TookJump \/ RefusedJump) <=> Cond(last.pre, last.instr.op))
    /\ (Stepped /\ last.instr.op \in {"ShOvfl", "ShFail"} /\ ~Cond(last.pre, last.instr.op))
           => ~(TookJump \/ RefusedJump)
    /\ (Stepped /\ last.instr.op = "Ret" /\ Len(last.pre.cs) > 0) => (TookJump \/ RefusedJump)

Charged == last.kind \in {"instr", "cycles", "limit"} /\ last.charged
LimitHit == last.kind = "limit"
\* CA as the charge for the latest instruction leaves it
ChargedCa == U64SaturatingAdd(last.pre.ca, complexity(last.instr))

\* C9: with CL = Some(l) the complexity of an instruction is added to CA before
\* it runs; as soon as CA >= l, CK is set to Fail, the effects of the
\* instruction are not applied and the run is over; no instruction is executed
\* with CA >= l.
C9_ComplexityLimit ==
    /\ Charged => core.ca = ChargedCa
    /\ (Charged /\ core.cl.some) => (LimitHit <=> U64Geq(ChargedCa, core.cl.val))
    /\ LimitHit =>
           /\ core.ck = Fail /\ core.cf = last.pre.cf + 1
           /\ core.co = last.pre.co /\ core.cs = last.pre.cs /\ core.cy = last.pre.cy
           /\ site = last.at /\ vmpc = "done"
    /\ (Stepped /\ core.cl.some) => ~U64Geq(core.ca, core.cl.val)
    /\ ~core.cl.some => ~LimitHit

\* C9, witness: the limit ended a run at a jump, after the run had returned
\* from a call and executed the instruction it returned to without charging it
C9_Witness ==
    /\ LimitHit /\ hist.dispatched > 3 /\ last.pre.ck = Ok
    /\ last.instr = Sh(2) /\ core.cy = last.pre.cy
    /\ Len(core.cs) > 0

Ran(op) == Stepped /\ last.instr.op = op
StackFull(c) == Len(c.cs) = CALL_STACK_SIZE_MAX

C12_RetOnEmptyStack ==
    (Ran("Ret") /\ Len(last.pre.cs) = 0) =>
        /\ last.kind = "instr" /\ last.step = StepStop
        /\ core.ck = last.pre.ck /\ core.cf = last.pre.cf
        /\ core.cs = << >> /\ core.cy = last.pre.cy /\ core.co = last.pre.co
        /\ vmpc = "done" /\ site = last.at

\* C12, witness: a run with CK = Ok was ended by a Ret on the empty call stack
C12_Witness ==
    /\ Ran("Ret") /\ Len(last.pre.cs) = 0 /\ last.step = StepStop
    /\ core.ck = Ok /\ core.cf = 0 /\ vmpc = "done" /\ hist.dispatched > 1

\* C13: Exec goes to its target site and leaves the call stack as it is; Call
\* pushes one entry, the site of the Call instruction itself, and goes to its
\* target site; Fn pushes one entry and jumps inside the current library.
C13_ExecCallFn ==
    /\ Ran("Exec") =>
           /\ core.cs = last.pre.cs
           /\ last.step = StepCall(last.instr.site)
           /\ TookJump => site = last.instr.site
    /\ (Ran("Call") /\ ~StackFull(last.pre)) =>
           /\ core.cs = Append(last.pre.cs, last.at)
           /\ last.step = StepCall(last.instr.site)
           /\ TookJump => site = last.instr.site
    /\ (Ran("Fn") /\ ~StackFull(last.pre)) =>
           /\ core.cs = Append(last.pre.cs, last.at)
           /\ last.step = StepJump(last.instr.pos)
           /\ TookJump => site = Site(last.at.prog_id, last.instr.pos)
    /\ (Ran("Exec") \/ ((Ran("Call") \/ Ran("Fn")) /\ ~StackFull(last.pre))) =>
           (TookJump \/ RefusedJump)

\* C13, witness: a Call in library A went to library B and left its own site
\* on the call stack
C13_Witness ==
    /\ Ran("Call") /\ TookJump /\ last.at = Site("A", 0)
    /\ site = Site("B", 0) /\ core.cs = <<Site("A", 0)>> /\ vmpc = "run"

Top(cs) == cs[Len(cs)]
Below(cs) == SubSeq(cs, 1, Len(cs) - 1)

\* C14: Fn at offset p of library L pushes (L, p), the site of the Fn itself;
\* Ret pops the entry pushed last and not yet popped and returns Ret(that
\* site), so that frames are returned last in, first out.
C14_FramesLifo ==
    /\ (Ran("Fn") /\ ~StackFull(last.pre)) =>
           /\ Top(core.cs) = Site(last.at.prog_id, last.at.offset)
           /\ Below(core.cs) = last.pre.cs
           /\ Resolver(scn, last.at.prog_id).code[last.at.offset + 1] = FN
    /\ (Ran("Ret") /\ Len(last.pre.cs) > 0) =>
           /\ last.step = StepRet(Top(last.pre.cs))
           /\ core.cs = Below(last.pre.cs)
           /\ TookJump => (site = Top(last.pre.cs) /\ skip)
    /\ \A i \in 1..Len(core.cs) :
           LET s == core.cs[i]
           IN  /\ Resolves(s.prog_id)
               /\ Resolver(scn, s.prog_id).code[s.offset + 1] \in {FN, CALL}

\* C14, witness: with two different frames on the call stack, a Ret popped the
\* one pushed last, the Call inside the function, and left the Fn frame
C14_Witness ==
    /\ Ran("Ret") /\ TookJump
    /\ last.pre.cs = <<Site("A", 0), Site("A", 3)>>
    /\ core.cs = <<Site("A", 0)>> /\ site = Site("A", 3)

\* the run of [FN 0x0004; STOP; RET] from a fresh Vm
FnRetCode == <<FN, 4, 0, STOP, RET>>
InitFnRet ==
    /\ InitCy
    /\ Resolver(scn, "A").code = FnRetCode

\* Vm::exec runs to its return: the loop of vm.rs:75-119 has no wait in it
SpecFnRet == InitFnRet /\ [][NextCy]_vars /\ WF_vars(NextCy)

\* what every step of the run of [FN 4; STOP; RET] does
FnRetStep ==
    /\ core.cy <= CY_MAX /\ Len(core.cs) <= 1
    /\ (Ran("Fn") /\ TookJump) =>
           (site = Site("A", 4) /\ core.cs = <<Site("A", 0)>> /\ core.cy = last.pre.cy + 1)
    /\ (Ran("Ret") /\ TookJump) =>
           (site = Site("A", 0) /\ core.cs = << >> /\ core.cy = last.pre.cy + 1)
    /\ Stepped => last.instr.op \in {"Fn", "Ret"}
    /\ vmpc = "done" => (RefusedJump /\ core.ck = Fail /\ core.cy = CY_MAX)
    /\ vmpc # "panic"

C17_Reset ==
    last.kind = "reset" =>
        /\ core.ch = core_config.halt /\ core.cl = core_config.complexity_lim
        /\ core.ch = last.pre.ch /\ core.cl = last.pre.cl
        /\ core.ck = Ok /\ core.co = Ok /\ core.cf = 0 /\ core.cy = 0
        /\ core.ca = U64_ZERO /\ core.cs = << >> /\ cp(core) = 0
        /\ core = CoreWith(core_config)
        /\ CoreReset(core) = core

\* C17, witness: reset of a core that had failed, counted jumps and complexity
\* and held frames on its call stack, under a complexity limit
C17_Witness ==
    /\ last.kind = "reset" /\ core = CoreWith(core_config) /\ core.cl.some
    /\ last.pre.ck = Fail /\ last.pre.cf > 0 /\ last.pre.cy > 0
    /\ last.pre.ca # U64_ZERO /\ Len(last.pre.cs) > 0

\* C18: CH and CL are set from the CoreConfig at construction and no
\* instruction and no step of the VM driver changes them: in every state
\* CH = config.halt and CL = config.complexity_lim.
C18_ChClFixed ==
    /\ core.ch = core_config.halt
    /\ core.cl = core_config.complexity_lim
    /\ last.kind \notin {"none"} => (core.ch = last.pre.ch /\ core.cl = last.pre.cl)

\* C18, witness: a second run without reset has ended in failure under
\* halt = false and a complexity limit, after executing instructions
C18_Witness ==
    /\ runs = 2 /\ vmpc = "done" /\ hist.dispatched > 1 /\ core.ck = Fail
    /\ ~core_config.halt /\ core_config.complexity_lim.some
    /\ core.ch = core_config.halt /\ core.cl = core_config.complexity_lim

\* runs of the programs whose only jumps are unconditional, on a fresh Vm
InitJmp ==
    InitVm(Len(AllScenarios) - Len(JmpScenarios) + 1 .. Len(AllScenarios), {None})

\* Vm::exec runs to its return: the loop of vm.rs:75-119 has no wait in it
SpecJmp == InitJmp /\ [][NextCy]_vars /\ WF_vars(NextCy)

UnconditionalJumps == {"Jmp", "Sh"}
NonJumps == {"Nop", "NotCo", "ChkCk", "FailCk", "RsetCk", "Stop"}
EndedByCycleLimit == vmpc = "done" /\ RefusedJump /\ core.ck = Fail

JmpRunStep ==
    /\ Stepped => last.instr.op \in UnconditionalJumps \cup NonJumps
    /\ (Stepped /\ last.instr.op \in UnconditionalJumps /\ last.step # StepFail)
           => (TookJump \/ RefusedJump)
    /\ hist.jumps <= 65536 /\ core.cy <= CY_MAX
    /\ ~RefusedJump => core.cy = hist.jumps
    /\ RefusedJump => (EndedByCycleLimit /\ hist.jumps = 65536)
    /\ vmpc # "panic"

InitEnd == Init \/ InitCy

SpecEnd == InitEnd /\ [][Next]_vars

\* what the latest step of a run met
EndedByStop == last.kind = "instr" /\ last.step = StepStop
RetOnEmptyStack == last.kind = "instr" /\ last.instr.op = "Ret" /\ last.pre.cs = <<>>
EndedByFailure == (FailStep \/ FailUnresolved) /\ FailCkReturned
EndedByCycles == RefusedJump /\ last.pre.cy >= CY_MAX
EndedByComplexity == LimitHit /\ last.pre.cl.some /\ U64Geq(ChargedCa, last.pre.cl.val)
EndedByEndOfCode == last.kind = "eof"
EndedByOffsetOverflow == FailUnresolved /\ ~FailCkReturned /\ last.at.offset = U16_MAX

EnteredUnresolved == ~Resolves(hist.entry.prog_id)
\* the lookups a run entered at offset o can fail before the offset overflows
LookupsFrom(o) == U16_MAX + 1 - o

\* C21: a failed lookup calls fail_ck; when fail_ck asks to stop the run ends
\* at once with CK = Fail; otherwise the offset advances by one and the lookup
\* is retried, and the run ends when the offset is 0xFFFF. A run entered at
\* offset o of a library that never resolves fails at most 0x10000 - o lookups,
\* is at offset o + (lookups so far) while it goes on, and has CK = Fail as soon
\* as one lookup failed.
C21_UnresolvedEnds ==
    /\ FailUnresolved =>
          /\ core.ck = Fail
          /\ core.cf = last.pre.cf + 1
          /\ last.stop => (vmpc = "done" /\ site = last.at)
          /\ (~last.stop /\ last.at.offset < U16_MAX) =>
                (vmpc = "run" /\ site = Site(last.at.prog_id, last.at.offset + 1))
          /\ (~last.stop /\ last.at.offset = U16_MAX) =>
                (vmpc = "done" /\ site = last.at)
    /\ (EnteredUnresolved /\ vmpc \in {"run", "done"}) =>
          /\ hist.lookups <= LookupsFrom(hist.entry.offset)
          /\ vmpc = "run" => site.offset = hist.entry.offset + hist.lookups
          /\ (vmpc = "done" /\ InRunStep) => (core.ck = Fail /\ hist.lookups >= 1)

C21_Witness ==
    /\ EnteredUnresolved
    /\ vmpc = "done"
    /\ ~core.ch
    /\ FailUnresolved
    /\ hist.lookups = LookupsFrom(hist.entry.offset)
    /\ hist.lookups > 1

\* the latest step was an Exec or a Call that transferred control
Transferred == TookJump /\ last.instr.op \in SiteOps
\* the instruction at site s of the library the resolver returns for s
InstrAt(s) ==
    decode_instr(Resolver(scn, s.prog_id).code, Resolver(scn, s.prog_id).libs, s.offset)

\* after an Exec or a Call to a site the driver is at that site, not skipping
TransferSite ==
    Transferred => (vmpc = "run" /\ site = last.instr.site /\ ~skip)

\* the step after a transfer dispatches at the target site, and what it
\* dispatches is the instruction decoded there from the resolved library
TransferStep ==
    (Transferred /\ vmpc = "run") =>
        /\ last'.at = last.instr.site
        /\ Resolves(last.instr.site.prog_id) <=> last'.kind # "unresolved"
        /\ last'.kind \in {"instr", "cycles", "limit"} =>
              last'.instr = InstrAt(last.instr.site).val

\* A = [EXEC ref0 0x0000] with libs = [B] and B = [STOP], entered at (A, 0) on a
\* core with CK = Ok, and the complexity limit not reached
ExecStopRun ==
    /\ Runs(<<EXEC, 0, 0, 0>>)
    /\ Resolver(scn, "A").libs = <<"B">>
    /\ Resolver(scn, "B").code = <<STOP>>
    /\ hist.ck0 = Ok
    /\ ~LimitHit

\* C22: after an Exec or a Call to (B, off) the next instruction dispatched is
\* the one at offset off of the library resolved for B; the run of
\* A = [EXEC ref0 0], B = [STOP] from (A, 0) ends at the Stop of B with CK = Ok
\* and an empty call stack.
C22_CrossLibrary ==
    /\ []TransferSite
    /\ [][TransferStep]_vars
    /\ []((ExecStopRun /\ vmpc = "done" /\ InRunStep) =>
             /\ last.at = Site("B", 0)
             /\ last.instr = Stop
             /\ core.ck = Ok
             /\ core.cs = << >>
             /\ hist.dispatched = 2)

C22_Witness ==
    /\ ExecStopRun
    /\ vmpc = "done"
    /\ last.kind = "instr"
    /\ last.at = Site("B", 0)
    /\ core.ck = Ok

\* C23: a reserved instruction, whatever its opcode and whatever the core,
\* returns ExecStep::Fail and hands the core back as it got it; its complexity
\* is u64::MAX. When one is executed in a run, CO and CS are as before it and
\* the failure is raised by the dispatch loop, not by the instruction.
C23_ReservedFails ==
    /\ \A opcode \in Byte :
          /\ ReservedExec(ReservedInstr(opcode), site, core) = Outcome(core, StepFail)
          /\ InstrExec(ReservedInstr(opcode), site, core) = Outcome(core, StepFail)
          /\ complexity(ReservedInstr(opcode)) = U64_MAX
    /\ (Stepped /\ last.instr.op = "Reserved") =>
          /\ last.step = StepFail
          /\ core.co = last.pre.co
          /\ core.cs = last.pre.cs
          /\ core.cy = last.pre.cy
          /\ core.ck = Fail
          /\ last.charged => core.ca = U64_MAX

C23_Witness ==
    /\ Stepped
    /\ last.instr.op = "Reserved"
    /\ last.pre.ck = Ok
    /\ last.charged
    /\ core.ca = U64_MAX

\* this run and the run before it began from equal cores at the same entry
\* point (the libraries and the resolver are those of the scenario in both)
SameStart ==
    /\ hist.prev.ran
    /\ hist.prev.core0 = hist.core0
    /\ hist.prev.entry = hist.entry
\* the registers the claim compares
Registers(c) == <<c.ck, c.co, c.cf, c.cy, c.ca, c.cs>>
IsPrefix(p, q) == Len(p) <= Len(q) /\ \A i \in 1..Len(p) : p[i] = q[i]

-----------------------------------------------------------------------------
(* Lib::assemble and Lib::disassemble *)

\* longest of the short programs given to the assembler
MaxAsmLen == 3

\* the library ids in their order (the order of the set that holds the libs
\* segment): "A", "B", "X", then as many numbered ids as overflow the segment
AsmIdOrder == <<"A", "B", "X">> \o [i \in 1..LIBS_SEG_MAX |-> ToString(i)]

\* mutant: only Call is taken as a reference to another library
external_ref_of_call(instr) ==
    IF instr.op = "Call" THEN Some(instr.site.prog_id) ELSE None

\* Bytecode::external_ref: the library an instruction refers to
external_ref(instr) ==
    IF instr.op \in SiteOps THEN Some(instr.site.prog_id) ELSE None

\* the ids of code.iter().filter_map(|instr| instr.external_ref())
call_sites(code) ==
    {external_ref(code[i]).val : i \in {j \in 1..Len(code) : external_ref(code[j]).some}}

\* TinyOrdSet::try_from_iter: the ordered set of the ids, at most 255 of them
try_from_iter(ids) ==
    IF Cardinality(ids) > LIBS_SEG_MAX THEN LibSegOverflow
    ELSE [tag |-> "Ok", val |-> SelectSeq(AsmIdOrder, LAMBDA id : id \in ids)]

\* for instr in code.iter() { instr.encode_instr(&mut writer)?; } for the
\* instructions lo..hi of code, in their order, written to w; computed by
\* halves to keep the evaluation shallow
RECURSIVE EncodeRange(_, _, _, _)
EncodeRange(code, lo, hi, w) ==
    IF lo > hi \/ w.tag # "Ok" THEN w
    ELSE IF lo = hi THEN encode_instr(code[lo], w)
    ELSE The({EncodeRange(code, (lo + hi) \div 2 + 1, hi, first) :
                 first \in {EncodeRange(code, lo, (lo + hi) \div 2, w)}})

\* Lib::assemble: the library, or the error; written is the libs segment as the
\* writer holds it after the encoding
assemble(code) ==
    LET libs_segment == try_from_iter(call_sites(code))
        writer == EncodeRange(code, 1, Len(code), Writer(<< >>, libs_segment.val))
    IN  IF libs_segment.tag # "Ok" THEN [tag |-> "LibSegOverflow"]
        ELSE IF writer.tag # "Ok" THEN [tag |-> "Bytecode"]
        ELSE [tag |-> "Ok", lib |-> Lib(writer.code, libs_segment.val),
              written |-> writer.libs]

\* while !reader.is_eof() { code.push(decode_instr(&mut reader)?); } for at most
\* n instructions from offset pos on: the instructions and the offset reached,
\* or the error; computed by halves to keep the evaluation shallow
RECURSIVE DecodeUpTo(_, _, _)
DecodeUpTo(lib, pos, n) ==
    IF pos >= Len(lib.code) \/ n = 0 THEN [tag |-> "Ok", val |-> << >>, pos |-> pos]
    ELSE IF n = 1
    THEN LET instr == decode_instr(lib.code, lib.libs, pos)
         IN  IF instr.tag = "Ok"
             THEN [tag |-> "Ok", val |-> <<instr.val>>, pos |-> instr.pos]
             ELSE instr
    ELSE The({IF first.tag # "Ok" THEN first
              ELSE The({IF rest.tag # "Ok" THEN rest
                        ELSE [tag |-> "Ok", val |-> first.val \o rest.val,
                              pos |-> rest.pos] :
                           rest \in {DecodeUpTo(lib, first.pos, n - n \div 2)}}) :
                 first \in {DecodeUpTo(lib, pos, n \div 2)}})

\* Lib::disassemble: every instruction takes a byte or more, so the loop runs
\* at most Len(code) times
disassemble(lib) ==
    LET read == DecodeUpTo(lib, 0, Len(lib.code))
    IN  IF read.tag = "Ok" THEN [tag |-> "Ok", val |-> read.val] ELSE read

\* the instructions the short programs are made of
AsmInstrs ==
    {Nop, ChkCo, RsetCk, Ret, Stop, Jmp(0), Jmp(30126), Fn(1), JiFail(U16_MAX),
     Sh(-5), ShOvfl(127), ShFail(-128),
     Exec(Site("A", 0)), Exec(Site("B", 27051)), Call(Site("A", 27051)),
     Call(Site("X", U16_MAX)), ReservedInstr(END + 1), ReservedInstr(255)}

\* n calls, each into a library of its own
ManyCalls(n) == [i \in 1..n |-> Call(Site(AsmIdOrder[i], i))]

\* the programs given to the assembler
AsmPrograms ==
    SeqsUpTo(AsmInstrs, MaxAsmLen)
      \cup {ManyCalls(LIBS_SEG_MAX), ManyCalls(LIBS_SEG_MAX + 1),
            <<Exec(Site("X", 0))>> \o ManyCalls(LIBS_SEG_MAX) \o <<Exec(Site("B", 1))>>}

\* the code segments given to the disassembler as they are
RawSegments ==
    {<<JMP, 174>>, <<JMP>>, <<NOP, SH>>, <<STOP, CALL, 0, 171>>, <<EXEC, 0>>,
     <<CHCO, JMP, 174>>, <<NOP, JMP, 174, 117, STOP>>, <<RET, 255, FN, 1>>}

InitAsm == InitCodec

\* Lib::assemble(code)
AsmAssemble(code) ==
    /\ codec.phase = "off"
    /\ codec' = [phase |-> "assembled", instrs |-> code, res |-> assemble(code)]
    /\ UNCHANGED <<core, site, skip, vmpc, scn, core_config, runs, last, hist>>

\* lib.disassemble() on the library just assembled
AsmDisassemble ==
    /\ codec.phase = "assembled"
    /\ codec.res.tag = "Ok"
    /\ codec' = [codec EXCEPT !.phase = "disassembled"] @@
                [dis |-> disassemble(codec.res.lib)]
    /\ UNCHANGED <<core, site, skip, vmpc, scn, core_config, runs, last, hist>>

\* Lib::assemble on what the disassembly returned
AsmReassemble ==
    /\ codec.phase = "disassembled"
    /\ codec.dis.tag = "Ok"
    /\ codec' = [codec EXCEPT !.phase = "reassembled"] @@
                [again |-> assemble(codec.dis.val)]
    /\ UNCHANGED <<core, site, skip, vmpc, scn, core_config, runs, last, hist>>

\* lib.disassemble() on a library with an arbitrary code segment
AsmDisassembleRaw(code, libs) ==
    /\ codec.phase = "off"
    /\ codec' = [phase |-> "raw", code |-> code, libs |-> libs,
                 dis |-> disassemble(Lib(code, libs))]
    /\ UNCHANGED <<core, site, skip, vmpc, scn, core_config, runs, last, hist>>

NextAsm ==
    \/ /\ codec.phase = "off"
       /\ \E code \in AsmPrograms : AsmAssemble(code)
    \/ AsmDisassemble
    \/ AsmReassemble
    \/ /\ codec.phase = "off"
       /\ \E code \in RawSegments, libs \in RawLibs : AsmDisassembleRaw(code, libs)

SpecAsm == InitAsm /\ [][NextAsm]_vars

\* the library ids that the Exec and Call operands of a program name
Referenced(code) ==
    {code[i].site.prog_id : i \in {j \in 1..Len(code) : code[j].op \in SiteOps}}
Assembled == codec.phase \in {"assembled", "disassembled", "reassembled"}
SegSet(libs) == {libs[i] : i \in 1..Len(libs)}
\* the wire bytes of the instructions lo..hi of a program
RECURSIVE WireRange(_, _, _, _)
WireRange(code, libs, lo, hi) ==
    IF lo > hi THEN << >>
    ELSE IF lo = hi
    THEN IF IsCtrl(code[lo]) THEN WireBytes(code[lo], libs) ELSE <<code[lo].opcode>>
    ELSE WireRange(code, libs, lo, (lo + hi) \div 2)
            \o WireRange(code, libs, (lo + hi) \div 2 + 1, hi)

C26_LibRoundTrip ==
    /\ codec.phase \in {"disassembled", "reassembled"} =>
          /\ codec.dis.tag = "Ok"
          /\ codec.dis.val = codec.instrs
    /\ codec.phase = "reassembled" =>
          /\ codec.again.tag = "Ok"
          /\ codec.again.lib = codec.res.lib

\* the operand bytes that follow an opcode byte on the wire
OperandsOf(opcode) ==
    CASE opcode \in {JMP, JINE, JIFAIL, FN} -> 2
      [] opcode \in {SH, SHNE, SHFAIL} -> 1
      [] opcode \in {EXEC, CALL} -> 3
      [] OTHER -> 0
\* reading instruction after instruction from pos, the last one lacks operand bytes
RECURSIVE TruncatedFrom(_, _)
TruncatedFrom(code, pos) ==
    IF pos >= Len(code) THEN FALSE
    ELSE IF pos + 1 + OperandsOf(code[pos + 1]) > Len(code) THEN TRUE
    ELSE TruncatedFrom(code, pos + 1 + OperandsOf(code[pos + 1]))
Truncated(code) == TruncatedFrom(code, 0)

\* C27, as stated: the disassembly of a code segment whose last instruction is
\* truncated returns the error CodeEof: no panic, no partial list of
\* instructions.
C27_TruncatedIsCodeEof ==
    (codec.phase = "raw" /\ Truncated(codec.code)) => codec.dis = CodeEof

\* C28, as stated: op_data_bytes of a CtrlInstr is the number of operand bytes
\* it takes in the code segment: code_byte_len less the opcode byte, which is
\* also what encoding it writes after the opcode.
C28_OpDataBytes ==
    (codec.phase = "encoded" /\ codec.w.tag = "Ok" /\ IsCtrl(codec.instr)) =>
        /\ op_data_bytes(codec.instr) = code_byte_len(codec.instr) - 1
        /\ op_data_bytes(codec.instr) = Len(Written) - 1

\* the complexity of the control-flow instructions, by their operands: none,
\* a u16 position, an i8 shift, a site in another library
ComplexityOf(op) ==
    CASE op \in NoOperandOps -> 0
      [] op \in PosOps -> 16000
      [] op \in ShiftOps -> 8000
      [] op \in SiteOps -> 528000

\* C29: the complexity of a CtrlInstr is (op_data_bytes + src_reg_bytes +
\* dst_reg_bytes + 2 * ext_data_bytes) * 8000, with no register bytes and 32
\* bytes of external data for Exec and Call only: 0 without operands, 8000 for
\* a shift, 16000 for a position, 528000 for a site, far below 2^64; this is
\* what a run adds to CA for the instruction.
C29_Complexity ==
    /\ \A instr \in CtrlInstrs :
          /\ src_reg_bytes(instr) = 0 /\ dst_reg_bytes(instr) = 0
          /\ ext_data_bytes(instr) = IF instr.op \in SiteOps THEN 32 ELSE 0
          /\ complexity(instr) =
                U64((op_data_bytes(instr) + 2 * ext_data_bytes(instr)) * 8000)
          /\ complexity(instr) = U64(ComplexityOf(instr.op))
          /\ instr.op \in NoOperandOps => complexity(instr) = U64_ZERO
    /\ (Charged /\ IsCtrl(last.instr)) =>
          core.ca = U64SaturatingAdd(last.pre.ca, U64(ComplexityOf(last.instr.op)))

C29_Witness ==
    /\ Charged
    /\ last.instr.op = "Call"
    /\ last.pre.ca = U64(16000)
    /\ core.ca = U64(544000)

\* C30: RsetCk copies into CO the value CK had before it and then sets CK to
\* Ok, whichever value CK had; it returns Next, the run goes on at the next
\* byte, and CF, CY and CS are as before.
C30_RsetCk ==
    /\ \A ck \in Status :
          ExecRsetCk([core EXCEPT !.ck = ck]) =
              Outcome([core EXCEPT !.co = ck, !.ck = Ok], StepNext)
    /\ Ran("RsetCk") =>
          /\ last.step = StepNext
          /\ core = [last.pre EXCEPT !.co = last.pre.ck, !.ck = Ok]
          /\ core.cf = last.pre.cf /\ core.cy = last.pre.cy /\ core.cs = last.pre.cs
          /\ vmpc = "run"
          /\ site = Site(last.at.prog_id, last.at.offset + 1)

C30_Witness ==
    /\ Ran("RsetCk")
    /\ last.pre.ck = Fail /\ last.pre.co = Ok
    /\ core.co = Fail /\ core.ck = Ok
    /\ core.cf > 0

\* C31: NotCo puts the negation of CO in CO (Fail for Ok, Ok for Fail), returns
\* Next and leaves every other register alone; the negation of a Status is an
\* involution, so a second NotCo gives back the core the first one got.
C31_NotCo ==
    /\ Not(Ok) = Fail /\ Not(Fail) = Ok
    /\ \A s \in Status : Not(Not(s)) = s
    /\ \A co \in Status :
          LET c == [core EXCEPT !.co = co]
          IN  /\ ExecNotCo(c) = Outcome([c EXCEPT !.co = IF co = Ok THEN Fail ELSE Ok],
                                        StepNext)
              /\ ExecNotCo(ExecNotCo(c).core).core = c
    /\ Ran("NotCo") =>
          /\ last.step = StepNext
          /\ core.co # last.pre.co
          /\ core = [last.pre EXCEPT !.co = core.co]
          /\ ExecNotCo(core).core = last.pre

C31_Witness ==
    /\ Ran("NotCo")
    /\ last.pre.co = Fail
    /\ core.co = Ok
    /\ runs = 2

\* the core with CO and CK set as given
WithFlags(c, co, ck) == [c EXCEPT !.co = co, !.ck = ck]
\* positions the absolute jumps are tried with
JumpPositions == {0, 1, 30126, U16_MAX}
StepIf(cond, step) == IF cond THEN step ELSE StepNext

\* C32: JiOvfl{pos} returns Jump(pos) when CO = Fail and Next otherwise,
\* JiFail{pos} returns Jump(pos) when CK = Fail and Next otherwise, Jmp{pos}
\* always returns Jump(pos); none of them changes the core. In a run the step
\* they return is the one read from CO and CK before them, and CO, CK, CF and
\* CS are after them as before.
C32_AbsoluteJumps ==
    /\ \A pos \in JumpPositions, co \in Status, ck \in Status :
          LET c == WithFlags(core, co, ck)
          IN  /\ ExecJiOvfl(pos, c) = Outcome(c, StepIf(co = Fail, StepJump(pos)))
              /\ ExecJiFail(pos, c) = Outcome(c, StepIf(ck = Fail, StepJump(pos)))
              /\ ExecJmp(pos, c) = Outcome(c, StepJump(pos))
    /\ (last.kind = "instr" /\ last.instr.op \in {"Jmp", "JiOvfl", "JiFail"}) =>
          /\ last.instr.op = "Jmp" => last.step = StepJump(last.instr.pos)
          /\ last.instr.op = "JiOvfl" =>
                last.step = StepIf(last.pre.co = Fail, StepJump(last.instr.pos))
          /\ last.instr.op = "JiFail" =>
                last.step = StepIf(last.pre.ck = Fail, StepJump(last.instr.pos))
          /\ core.co = last.pre.co /\ core.ck = last.pre.ck
          /\ core.cf = last.pre.cf /\ core.cs = last.pre.cs
          /\ site.offset = IF last.step = StepNext THEN last.at.offset + 3
                           ELSE last.instr.pos

C32_Witness ==
    /\ last.kind = "instr"
    /\ last.instr.op = "JiFail"
    /\ last.pre.ck = Fail
    /\ last.step = StepJump(5)
    /\ site.offset = 5

\* offsets the shifts are tried at
ShiftOffsets == {0, 4, 127, U16_MAX - 126, U16_MAX}
\* what a taken shift by s returns at offset o
ShiftStep(o, s) == IF o + s < 0 \/ o + s > U16_MAX THEN StepFail ELSE StepJump(o + s)

\* C33: a taken Sh, ShOvfl or ShFail with shift s at offset o returns
\* Jump(o + s), o being the offset of the shift instruction itself, and Fail
\* when o + s is below 0 or above 0xFFFF; Sh is always taken, ShOvfl when
\* CO = Fail, ShFail when CK = Fail; a shift that is not taken returns Next,
\* its target in range or not; none of them changes the core.
C33_RelativeShifts ==
    /\ \A s \in CodecShifts, o \in ShiftOffsets, co \in Status, ck \in Status :
          LET c == WithFlags(core, co, ck)
              at == Site("A", o)
          IN  /\ ExecSh(s, at, c) = Outcome(c, ShiftStep(o, s))
              /\ ExecShOvfl(s, at, c) = Outcome(c, StepIf(co = Fail, ShiftStep(o, s)))
              /\ ExecShFail(s, at, c) = Outcome(c, StepIf(ck = Fail, ShiftStep(o, s)))
    /\ (Stepped /\ last.instr.op \in ShiftOps) =>
          LET taken == CASE last.instr.op = "Sh" -> TRUE
                         [] last.instr.op = "ShOvfl" -> last.pre.co = Fail
                         [] last.instr.op = "ShFail" -> last.pre.ck = Fail
          IN  /\ last.step = StepIf(taken, ShiftStep(last.at.offset, last.instr.shift))
              /\ (last.kind = "instr" /\ last.step.step = "Jump") =>
                    site = Site(last.at.prog_id, last.at.offset + last.instr.shift)
              /\ last.step = StepNext =>
                    site = Site(last.at.prog_id, last.at.offset + 2)

C33_Witness ==
    /\ last.kind = "instr"
    /\ last.instr.op = "ShOvfl"
    /\ last.pre.co = Fail
    /\ last.at.offset = 1
    /\ last.step = StepJump(4)
    /\ site.offset = 4

C35_CaMonotonic ==
    /\ InRunStep => U64Geq(core.ca, last.pre.ca)
    /\ (vmpc \in {"run", "done"} /\ last.kind # "reset") => U64Geq(core.ca, hist.core0.ca)
    /\ Charged =>
          /\ U64Geq(core.ca, complexity(last.instr))
          /\ core.ca = IF U64Overflows(last.pre.ca, complexity(last.instr))
                       THEN U64_MAX
                       ELSE U64WrappingAdd(last.pre.ca, complexity(last.instr))
          /\ last.instr.op = "Reserved" => core.ca = U64_MAX
    /\ (InRunStep /\ ~Charged) => core.ca = last.pre.ca

C35_Witness ==
    /\ Charged
    /\ last.instr.op = "Reserved"
    /\ last.pre.ca = U64_MAX
    /\ U64Overflows(last.pre.ca, complexity(last.instr))
    /\ core.ca = U64_MAX

\* the latest step was a call of Lib::exec (the library resolved)
InnerStep == last.kind \in {"instr", "cycles", "limit", "eof", "panic"}

\* what the driver holds after a call of Lib::exec, by the Jump it returned
\* ("Cont": the inner loop goes on by itself, past its first instruction)
ProtocolState ==
    /\ (vmpc = "run" /\ last.kind = "none") => (~skip /\ site = hist.entry)
    /\ (InnerStep /\ last.jump = "Halt") => vmpc = "done"
    /\ (InnerStep /\ last.jump = "Instr") =>
          (vmpc = "run" /\ ~skip /\ site = last.step.site)
    /\ (InnerStep /\ last.jump = "Next") =>
          (vmpc = "run" /\ skip /\ site = last.step.site /\ last.step.step = "Ret")
    /\ (InnerStep /\ last.jump = "Cont") => (vmpc = "run" /\ ~skip)
    /\ vmpc = "run" => (skip <=> (InnerStep /\ last.jump = "Next"))
    /\ (InnerStep /\ last.skipped) => (~last.charged /\ core.ca = last.pre.ca)
    /\ (last.kind \in {"instr", "cycles", "limit"} /\ ~last.skipped) => last.charged
    /\ (last.kind = "instr" /\ last.step.step \in {"Stop", "Fail"} /\ vmpc = "done") =>
          last.jump = "Halt"

\* the call of Lib::exec is made at the driver's site with the driver's skip
ProtocolStep ==
    (vmpc = "run" /\ Resolves(site.prog_id)) =>
        (InnerStep' /\ last'.at = site /\ last'.skipped = skip)

\* C36: the driver passes skip = false on the first call of the inner loop and
\* after a Jump::Instr, and skip = true exactly after a Jump::Next (a Ret);
\* Jump::Halt ends the outer loop; an instruction met with skip = true is not
\* charged to CA.
C36_SkipProtocol == []ProtocolState /\ [][ProtocolStep]_vars

C36_Witness ==
    /\ last.kind = "instr"
    /\ last.skipped
    /\ last.instr.op = "Call"
    /\ last.jump = "Instr"
    /\ ~skip
    /\ core.ca = last.pre.ca
    /\ last.pre.ca # U64_ZERO

\* C37: CP equals the number of entries of CS in every state: it is 0 after
\* construction and after reset, one more after each successful push (Fn, Call),
\* one less after each successful pop (Ret), and unchanged by every other step.
C37_CpIsLen ==
    /\ cp(core) = Len(core.cs)
    /\ (runs = 0 /\ last.kind = "none") => cp(core) = 0
    /\ last.kind = "reset" => cp(core) = 0
    /\ ((Ran("Fn") \/ Ran("Call")) /\ last.step # StepFail) =>
          /\ cp(core) = cp(last.pre) + 1
          /\ Len(core.cs) = Len(last.pre.cs) + 1
    /\ (Ran("Ret") /\ last.step.step = "Ret") =>
          /\ cp(core) = cp(last.pre) - 1
          /\ Len(core.cs) = Len(last.pre.cs) - 1
    /\ (InRunStep /\ ~(Ran("Fn") \/ Ran("Call") \/ Ran("Ret"))) =>
          cp(core) = cp(last.pre)
    /\ (InRunStep /\ last.kind = "instr" /\ last.step.step \in {"Fail", "Stop"}) =>
          cp(core) = cp(last.pre)

C37_Witness ==
    /\ Ran("Ret")
    /\ last.step.step = "Ret"
    /\ cp(last.pre) = 2
    /\ cp(core) = 1
    /\ Len(core.cs) = 1

\* a call of Vm::exec: the step that takes the Vm into a run
ExecCalled == vmpc # "run" /\ vmpc' = "run"

\* the call leaves the core as it found it: as the run before it left it,
\* when no reset came between
ExecKeepsCore ==
    ExecCalled =>
        /\ core' = core
        /\ hist'.core0 = core
        /\ (runs > 0 /\ last.kind # "reset") =>
              /\ core' = hist.final
              /\ Registers(core') = Registers(hist.final)
              /\ core'.cs = hist.final.cs

\* the counters of a run go on from the values the run was entered with
RunAccumulates ==
    (runs > 0 /\ last.kind # "reset") =>
        /\ core.cy >= hist.core0.cy
        /\ core.cf >= hist.core0.cf
        /\ U64Geq(core.ca, hist.core0.ca)
        /\ hist.core0.cf > 0 => core.cf > 0

\* C38: Vm::exec does not reset the core: a second call without a reset between
\* starts from the CK, CO, CF, CY, CA and CS the first call left, so the cycle
\* count, the complexity and the failure count accumulate across calls.
C38_ExecKeepsCore == []RunAccumulates /\ [][ExecKeepsCore]_vars

C38_Witness ==
    /\ runs = 2
    /\ vmpc = "run"
    /\ last.kind = "none"
    /\ hist.prev.ran
    /\ core = hist.prev.final
    /\ core.ck = Fail
    /\ core.cf > 0
    /\ core.cy > 0
    /\ core.ca # U64_ZERO
    /\ core.cs # << >>

\* --------------------------------------------------------------------------
\* IntFlags and its conversions (isa/flags.rs)

\* the longest chain of conversions followed from one value
MaxChain == 4

\* the values of u2
U2 == 0..3

\* a & b on u2
U2And(a, b) == ((a % 2) * (b % 2)) + 2 * ((a \div 2) * (b \div 2))
BoolAsU8(b) == IF b THEN 1 ELSE 0

\* struct IntFlags
IntFlags(signed, wrap) == [t |-> "flags", signed |-> signed, wrap |-> wrap]
AllIntFlags == {IntFlags(s, w) : s, w \in BOOLEAN}
U2Val(v) == [t |-> "u2", val |-> v]
StrVal(s) == [t |-> "str", s |-> s]
FlagErr(e) == [t |-> "err", err |-> e]

\* IntFlags::from_u2: both flags are compared with 1 after the mask, and the
\* mask of the wrap flag is 0x02 >> 1
from_u2(val) == IntFlags(U2And(val, 1) = 1, U2And(val, 2 \div 2) = 1)

\* IntFlags::as_u2: signed as u8 | (wrap as u8) << 1
as_u2(f) == BoolAsU8(f.signed) + 2 * BoolAsU8(f.wrap)

\* impl Display for IntFlags: 's' or 'u', then 'w' or 'c'
IntFlagsDisplay(f) ==
    <<IF f.signed THEN "s" ELSE "u", IF f.wrap THEN "w" ELSE "c">>

Contains(s, ch) == \E i \in 1..Len(s) : s[i] = ch

\* impl FromStr for IntFlags
IntFlagsFromStr(s) ==
    CASE Contains(s, "s") /\ Contains(s, "u") -> FlagErr("MutuallyExclusiveFlags")
      [] ~Contains(s, "s") /\ ~Contains(s, "u") -> FlagErr("RequiredFlagAbsent")
      [] Contains(s, "w") /\ Contains(s, "c") -> FlagErr("MutuallyExclusiveFlags")
      [] ~Contains(s, "w") /\ ~Contains(s, "c") -> FlagErr("RequiredFlagAbsent")
      [] Len(s) > 2 -> FlagErr("UnknownFlags")
      [] OTHER -> IntFlags(Contains(s, "s"), Contains(s, "w"))

\* the strings parsed: up to three of the flag letters and one other letter
FlagChars == {"s", "u", "w", "c", "x"}
FlagStrs == UNION {[1..n -> FlagChars] : n \in 0..3}

FlagInputs ==
    AllIntFlags \cup {U2Val(v) : v \in U2} \cup {StrVal(s) : s \in FlagStrs}

FlagsTop == codec.chain[Len(codec.chain)]
FlagsAt(kind) ==
    /\ codec.phase = "flags"
    /\ Len(codec.chain) <= MaxChain
    /\ FlagsTop.t = kind
FlagsPush(v) ==
    /\ codec' = [codec EXCEPT !.chain = Append(@, v)]
    /\ UNCHANGED <<core, site, skip, vmpc, scn, core_config, runs, last, hist>>

\* a value is given to the conversions
FlagsStart(v) ==
    /\ codec.phase = "off"
    /\ codec' = [phase |-> "flags", chain |-> <<v>>]
    /\ UNCHANGED <<core, site, skip, vmpc, scn, core_config, runs, last, hist>>

\* u2::from(flags)
FlagsAsU2 == FlagsAt("flags") /\ FlagsPush(U2Val(as_u2(FlagsTop)))

\* IntFlags::from(u2)
FlagsFromU2 == FlagsAt("u2") /\ FlagsPush(from_u2(FlagsTop.val))

\* flags.to_string()
FlagsToString == FlagsAt("flags") /\ FlagsPush(StrVal(IntFlagsDisplay(FlagsTop)))

\* IntFlags::from_str(s)
FlagsParse == FlagsAt("str") /\ FlagsPush(IntFlagsFromStr(FlagsTop.s))

InitFlags == InitCodec

NextFlags ==
    \/ \E v \in FlagInputs : FlagsStart(v)
    \/ FlagsAsU2
    \/ FlagsFromU2
    \/ FlagsToString
    \/ FlagsParse

SpecFlags == InitFlags /\ [][NextFlags]_vars

\* the value two conversions after position i of the chain is the value at i
BackAt(i) == codec.chain[i + 2] = codec.chain[i]
\* positions of the chain where a value of the kind went through the two
\* conversions of the bytecode encoding
U2Trips(kind) ==
    {i \in 1..Len(codec.chain) - 2 :
        /\ codec.chain[i].t = kind
        /\ codec.chain[i + 1].t = IF kind = "flags" THEN "u2" ELSE "flags"
        /\ codec.chain[i + 2].t = kind}

\* C39, as stated: from_u2(as_u2(f)) = f for each of the four flag
\* combinations, and as_u2(from_u2(v)) = v for each 2-bit value.
C39_U2RoundTrip ==
    codec.phase = "flags" =>
        /\ \A i \in U2Trips("flags") : BackAt(i)
        /\ \A i \in U2Trips("u2") : BackAt(i)

\* --------------------------------------------------------------------------
\* impl Debug for AluCore (core/core.rs)

\* AluCore::fmt, the call-stack line: `for p in 0..=self.cp` reads
\* self.cs[p as usize]; indexing a Vec at or past its length panics, and the
\* loop ends there
fmt(c) ==
    [reads |-> {p \in 0..cp(c) : p <= Len(c.cs)},
     len |-> Len(c.cs),
     cp |-> cp(c),
     panic |-> \E p \in 0..cp(c) : p >= Len(c.cs)]

\* format!("{:?}", vm.core), between two calls of Vm::exec (which borrows the
\* Vm for the whole of a run)
DebugFmt ==
    /\ vmpc \in {"idle", "done"}
    /\ codec' = [phase |-> "fmt", out |-> fmt(core)]
    /\ codec' # codec
    /\ UNCHANGED <<core, site, skip, vmpc, scn, core_config, runs, last, hist>>

NextFmt == Next \/ DebugFmt

SpecFmt == Init /\ [][NextFmt]_vars

\* C40, as stated: formatting a core with Debug reads only call-stack entries
\* that exist, every index read is below len(cs), a freshly constructed core
\* with an empty call stack and cp = 0 included, so formatting never panics.
C40_DebugInBounds ==
    codec.phase = "fmt" =>
        /\ \A p \in codec.out.reads : p < codec.out.len
        /\ ~codec.out.panic

====
